---- MODULE Spec2Model ----
(***************************************************************************)
(* A model of the ospry Go client (src/ospry.go): FormatURL, the default   *)
(* client's key, and the transport operations' decoding of the response    *)
(* envelope.                                                               *)
(*                                                                         *)
(* Strings are TLA+ strings and are processed character by character, so   *)
(* a URL is the text the Go code sees.  The standard library functions the *)
(* code calls (net/url, strconv, time, crypto/hmac, crypto/sha256 and      *)
(* encoding/base64) are modelled by what they do on printable ASCII text;  *)
(* the limits of each are stated where it is defined.                      *)
(***************************************************************************)
EXTENDS Integers, Sequences, FiniteSets, TLC

(***************************************************************************)
(* Characters and strings                                                  *)
(***************************************************************************)

\* The printable ASCII characters in code order: 0x20 to 0x5F, then 0x61 to
\* 0x7E.  0x60 (the backquote) cannot be written in a TLA+ string and is not
\* part of the modelled alphabet.
AsciiLo == " !\"#$%&'()*+,-./0123456789:;<=>?@ABCDEFGHIJKLMNOPQRSTUVWXYZ[\\]^_"

AsciiHi == "abcdefghijklmnopqrstuvwxyz{|}~"

Char(s, i) == SubSeq(s, i, i)

Chars == {Char(AsciiLo, i) : i \in 1..Len(AsciiLo)} \cup {Char(AsciiHi, i) : i \in 1..Len(AsciiHi)}

\* The byte value of a character.
Ord ==
  [c \in Chars |->
     IF \E i \in 1..Len(AsciiLo) : Char(AsciiLo, i) = c
     THEN 31 + (CHOOSE i \in 1..Len(AsciiLo) : Char(AsciiLo, i) = c)
     ELSE 96 + (CHOOSE i \in 1..Len(AsciiHi) : Char(AsciiHi, i) = c)]

\* The character of a byte value in 0x20..0x7E other than 0x60.
Chr(n) == IF n < 96 THEN Char(AsciiLo, n - 31) ELSE Char(AsciiHi, n - 96)

IsDigit(c) == Ord[c] \in 48..57

IsUpper(c) == Ord[c] \in 65..90

IsLower(c) == Ord[c] \in 97..122

IsAlpha(c) == Ord[c] \in (65..90) \cup (97..122)

DigitVal(c) == Ord[c] - 48

\* The concatenation of the strings f[lo], ..., f[hi], by halves (the depth of
\* the evaluation stays logarithmic in the length).
RECURSIVE ConcatRange(_, _, _)
ConcatRange(f, lo, hi) ==
  IF lo > hi THEN ""
  ELSE IF lo = hi THEN f[lo]
  ELSE LET mid == (lo + hi) \div 2
       IN  ConcatRange(f, lo, mid) \o ConcatRange(f, mid + 1, hi)

\* strings.ToLower on ASCII text.
ToLower(s) ==
  ConcatRange([i \in 1..Len(s) |->
                 IF IsUpper(Char(s, i)) THEN Chr(Ord[Char(s, i)] + 32) ELSE Char(s, i)],
              1, Len(s))

\* strings.IndexByte, 1-based; 0 when c does not occur in s.
Index(s, c) ==
  IF \E i \in 1..Len(s) : Char(s, i) = c
  THEN CHOOSE i \in 1..Len(s) :
         Char(s, i) = c /\ \A j \in 1..(i - 1) : Char(s, j) # c
  ELSE 0

\* strings.LastIndexByte, 1-based; 0 when c does not occur in s.
LastIndex(s, c) ==
  IF \E i \in 1..Len(s) : Char(s, i) = c
  THEN CHOOSE i \in 1..Len(s) :
         Char(s, i) = c /\ \A j \in (i + 1)..Len(s) : Char(s, j) # c
  ELSE 0

Contains(s, c) == \E i \in 1..Len(s) : Char(s, i) = c

\* strings.Count for a single character.
Count(s, c) == Cardinality({i \in 1..Len(s) : Char(s, i) = c})

HasPrefix(s, p) == Len(s) >= Len(p) /\ SubSeq(s, 1, Len(p)) = p

HasSuffix(s, p) == Len(s) >= Len(p) /\ SubSeq(s, Len(s) - Len(p) + 1, Len(s)) = p

From(s, i) == SubSeq(s, i, Len(s))

\* The parts of s around its character at place i, for strings.Cut: s
\* whole when i = 0.
CutAt(s, i) ==
  IF i = 0 THEN [before |-> s, after |-> "", found |-> FALSE]
  ELSE [before |-> SubSeq(s, 1, i - 1), after |-> From(s, i + 1), found |-> TRUE]

\* strings.Cut for a single character separator.
Cut(s, c) == CutAt(s, Index(s, c))

\* Go's < on strings: bytewise lexicographic order.
StrLess(a, b) ==
  LET n == IF Len(a) < Len(b) THEN Len(a) ELSE Len(b)
  IN  IF \E i \in 1..n : Char(a, i) # Char(b, i)
      THEN LET d == CHOOSE i \in 1..n :
                      Char(a, i) # Char(b, i) /\ \A j \in 1..(i - 1) : Char(a, j) = Char(b, j)
           IN  Ord[Char(a, d)] < Ord[Char(b, d)]
      ELSE Len(a) < Len(b)

(***************************************************************************)
(* net/url: escaping                                                       *)
(***************************************************************************)

IsHex(c) == Ord[c] \in (48..57) \cup (65..70) \cup (97..102)

\* net/url unhex, on the byte value v of a hex digit.
UnHexByte(v) ==
  IF v <= 57 THEN v - 48
  ELSE IF v <= 70 THEN v - 65 + 10
  ELSE v - 97 + 10

UnHex(c) == UnHexByte(Ord[c])

UpperHex == "0123456789ABCDEF"

\* net/url shouldEscape for the modes the code reaches: "path", "host",
\* "zone", "userPassword", "query" (encodeQueryComponent) and "fragment".
ShouldEscape(c, mode) ==
  IF IsAlpha(c) \/ IsDigit(c) THEN FALSE
  ELSE IF mode \in {"host", "zone"} /\ c \in {"!", "$", "&", "'", "(", ")", "*", "+", ",", ";", "=", ":", "[", "]", "<", ">", "\""}
  THEN FALSE
  ELSE IF c \in {"-", "_", ".", "~"} THEN FALSE
  ELSE IF c \in {"$", "&", "+", ",", "/", ":", ";", "=", "?", "@"}
          /\ mode \in {"path", "userPassword", "query", "fragment"}
  THEN CASE mode = "path" -> c = "?"
         [] mode = "userPassword" -> c \in {"@", "/", "?", ":"}
         [] mode = "query" -> TRUE
         [] mode = "fragment" -> FALSE
  ELSE IF mode = "fragment" /\ c \in {"!", "(", ")", "*"} THEN FALSE
  ELSE TRUE

\* net/url escape.
EscapeChar(c, mode) ==
  IF ~ShouldEscape(c, mode) THEN c
  ELSE IF c = " " /\ mode = "query" THEN "+"
  ELSE "%" \o Char(UpperHex, (Ord[c] \div 16) + 1) \o Char(UpperHex, (Ord[c] % 16) + 1)

Escape(s, mode) ==
  ConcatRange([i \in 1..Len(s) |-> EscapeChar(Char(s, i), mode)], 1, Len(s))

\* url.QueryEscape.
QueryEscape(s) == Escape(s, "query")

\* A "%" never is a hex digit, so in a well-formed string every "%" starts an
\* escape and the two characters after it belong to it.
InEscape(s, i) ==
  \/ i >= 2 /\ Char(s, i - 1) = "%"
  \/ i >= 3 /\ Char(s, i - 2) = "%"

\* shouldEscape(v, encodeHost) for a byte value v: a byte outside the
\* modelled alphabet is none of the bytes shouldEscape lets through.
ShouldEscapeByte(v) ==
  IF v >= 32 /\ v <= 126 /\ v # 96 THEN ShouldEscape(Chr(v), "host") ELSE TRUE

\* The byte of the escape that starts at s[i].
EscapedByte(s, i) == 16 * UnHex(Char(s, i + 1)) + UnHex(Char(s, i + 2))

\* What unescape asks of the escape esc of the byte v: a host holds no
\* escape of an ASCII byte but %25, and a zone no escape of a byte that a
\* host could not hold, but %25 and the space.
EscapeOK(esc, v, mode) ==
  /\ ~(mode = "host" /\ v \div 16 < 8 /\ esc # "%25")
  /\ ~(mode = "zone" /\ esc # "%25" /\ v # 32 /\ ShouldEscapeByte(v))

\* The first pass of net/url unescape: every % is followed by two hex digits
\* and is an escape the mode allows, and a host or a zone holds no character
\* that would need escaping.
UnescapeOK(s, mode) ==
  \A i \in 1..Len(s) :
    IF Char(s, i) = "%"
    THEN /\ i + 2 <= Len(s)
         /\ \A k \in {i + 1, i + 2} : IsHex(Char(s, k))
         /\ EscapeOK(SubSeq(s, i, i + 2), EscapedByte(s, i), mode)
    ELSE ~(mode \in {"host", "zone"} /\ ShouldEscape(Char(s, i), mode))

\* The second pass: the decoded text (of a string that passed the first).
UnescapeText(s, mode) ==
  ConcatRange([i \in 1..Len(s) |->
                 IF Char(s, i) = "%" THEN Chr(EscapedByte(s, i))
                 ELSE IF InEscape(s, i) THEN ""
                 ELSE IF Char(s, i) = "+" /\ mode = "query" THEN " "
                 ELSE Char(s, i)],
              1, Len(s))

\* net/url unescape: the decoded text, or an error.
Unescape(s, mode) ==
  IF UnescapeOK(s, mode) THEN [ok |-> TRUE, val |-> UnescapeText(s, mode)]
  ELSE [ok |-> FALSE, val |-> ""]

\* net/url validEncoded.
ValidEncoded(s, mode) ==
  \A i \in 1..Len(s) :
    \/ Char(s, i) \in {"!", "$", "&", "'", "(", ")", "*", "+", ",", ";", "=", ":", "@"}
    \/ Char(s, i) \in {"[", "]"}
    \/ Char(s, i) = "%"
    \/ ~ShouldEscape(Char(s, i), mode)

(***************************************************************************)
(* net/url: URL, Parse, String                                             *)
(*                                                                         *)
(* A url.URL is a record of its fields.  User is a pointer to a Userinfo:  *)
(* <<>> for nil, <<[username, password, passwordSet]>> otherwise.          *)
(***************************************************************************)

EmptyURL ==
  [Scheme |-> "", Opaque |-> "", User |-> <<>>, Host |-> "", Path |-> "", RawPath |-> "",
   OmitHost |-> FALSE, ForceQuery |-> FALSE, RawQuery |-> "",
   Fragment |-> "", RawFragment |-> ""]

\* net/url getScheme: [scheme, rest, ok].  The scan stops at the first
\* character that is no letter, and no digit, "+", "-" or "." past the first
\* position.
SchemeChar(rawURL, i) ==
  \/ IsAlpha(Char(rawURL, i))
  \/ i > 1 /\ (IsDigit(Char(rawURL, i)) \/ Char(rawURL, i) \in {"+", "-", "."})

\* The place of the first character of rawURL that cannot be part of a
\* scheme, Len(rawURL) + 1 when it has none.
SchemeStop(rawURL) ==
  CHOOSE i \in 1..(Len(rawURL) + 1) :
    /\ i > Len(rawURL) \/ ~SchemeChar(rawURL, i)
    /\ \A j \in 1..(i - 1) : SchemeChar(rawURL, j)

GetSchemeAt(rawURL, stop) ==
  IF stop > Len(rawURL) \/ Char(rawURL, stop) # ":"
  THEN [scheme |-> "", rest |-> rawURL, ok |-> TRUE]
  ELSE IF stop = 1 THEN [scheme |-> "", rest |-> "", ok |-> FALSE]
  ELSE [scheme |-> SubSeq(rawURL, 1, stop - 1), rest |-> From(rawURL, stop + 1), ok |-> TRUE]

GetScheme(rawURL) == GetSchemeAt(rawURL, SchemeStop(rawURL))

\* net/url validOptionalPort.
ValidOptionalPort(port) ==
  \/ port = ""
  \/ /\ Head(port) = ":"
     /\ \A i \in 2..Len(port) : IsDigit(Char(port, i))

\* strings.Index(s, "%25"), 1-based; 0 when it does not occur.
IndexZone(s) ==
  IF \E i \in 1..(Len(s) - 2) : SubSeq(s, i, i + 2) = "%25"
  THEN CHOOSE i \in 1..(Len(s) - 2) :
         SubSeq(s, i, i + 2) = "%25" /\ \A j \in 1..(i - 1) : SubSeq(s, j, j + 2) # "%25"
  ELSE 0

\* The text net/url parseHost tests as a port: what follows the last "]" of
\* a host that starts with "[", and otherwise the text from the last ":" on.
HostPort(host) ==
  IF HasPrefix(host, "[") THEN From(host, LastIndex(host, "]") + 1)
  ELSE IF LastIndex(host, ":") > 0 THEN From(host, LastIndex(host, ":"))
  ELSE ""

\* The parts of the host that parseHost unescapes one by one: a host that
\* starts with "[" and has a zone (z the place of the first "%25" before
\* its last "]", at place i) is cut before the zone and before the "]",
\* any other host is taken whole.
HostParts(host, z, i) ==
  IF HasPrefix(host, "[") /\ z > 0
  THEN <<SubSeq(host, 1, z - 1), SubSeq(host, z, i - 1), From(host, i)>>
  ELSE <<host, "", "">>

\* The host of its unescaped parts r, or the error of one of them.
JoinHost(r) ==
  IF r[1].ok /\ r[2].ok /\ r[3].ok
  THEN [ok |-> TRUE, val |-> r[1].val \o r[2].val \o r[3].val]
  ELSE [ok |-> FALSE, val |-> ""]

\* The parts unescaped: the second is a zone.
UnescapeHost(parts) ==
  JoinHost([k \in 1..3 |-> Unescape(parts[k], IF k = 2 THEN "zone" ELSE "host")])

\* net/url parseHost.
ParseHost(host) ==
  IF HasPrefix(host, "[") /\ LastIndex(host, "]") = 0 THEN [ok |-> FALSE, val |-> ""]
  ELSE IF ~ValidOptionalPort(HostPort(host)) THEN [ok |-> FALSE, val |-> ""]
  ELSE UnescapeHost(HostParts(host, IndexZone(SubSeq(host, 1, LastIndex(host, "]") - 1)),
                              LastIndex(host, "]")))

\* net/url validUserinfo.
ValidUserinfo(s) ==
  \A i \in 1..Len(s) :
    \/ IsAlpha(Char(s, i))
    \/ IsDigit(Char(s, i))
    \/ Char(s, i) \in {"-", ".", "_", ":", "~", "!", "$", "&", "'", "(", ")", "*", "+", ",",
                       ";", "=", "%", "@"}

\* A pointer to the Userinfo of a username and, when set, a password.
Userinfo(username, password, passwordSet) ==
  <<[username |-> username, password |-> password, passwordSet |-> passwordSet]>>

\* url.User or url.UserPassword of the unescaped name and password r:
\* [ok, user].
UserinfoOf(passwordSet, r) ==
  IF ~r[1].ok \/ (passwordSet /\ ~r[2].ok) THEN [ok |-> FALSE, user |-> <<>>]
  ELSE [ok |-> TRUE,
        user |-> Userinfo(r[1].val, IF passwordSet THEN r[2].val ELSE "", passwordSet)]

\* The userinfo of net/url parseAuthority: the text whole is the name when
\* it has no ":", and is cut at its first ":" otherwise.
ParseUserinfo(userinfo) ==
  UserinfoOf(Contains(userinfo, ":"),
             [k \in 1..2 |->
                Unescape(IF k = 1 THEN Cut(userinfo, ":").before ELSE Cut(userinfo, ":").after,
                         "userPassword")])

\* net/url parseAuthority: [ok, user, host].  i is the place of the last
\* "@" of the authority, 0 when it has none, h what parseHost gives for the
\* text after it, and valid and user what validUserinfo and the parse of
\* the userinfo give for the text before it.
AuthorityOf(i, h, valid, user) ==
  IF ~h.ok THEN [ok |-> FALSE, user |-> <<>>, host |-> ""]
  ELSE IF i = 0 THEN [ok |-> TRUE, user |-> <<>>, host |-> h.val]
  ELSE IF ~valid \/ ~user.ok THEN [ok |-> FALSE, user |-> <<>>, host |-> ""]
  ELSE [ok |-> TRUE, user |-> user.user, host |-> h.val]

parseAuthority(authority) ==
  AuthorityOf(LastIndex(authority, "@"),
              ParseHost(From(authority, LastIndex(authority, "@") + 1)),
              ValidUserinfo(SubSeq(authority, 1, LastIndex(authority, "@") - 1)),
              ParseUserinfo(SubSeq(authority, 1, LastIndex(authority, "@") - 1)))

\* URL.setPath for the unescaped path: Path and the RawPath hint.
SetPathTo(u, p, path) ==
  IF ~path.ok THEN [ok |-> FALSE, u |-> u]
  ELSE [ok |-> TRUE,
        u |-> [u EXCEPT !.Path = path.val,
                        !.RawPath = IF p = Escape(path.val, "path") THEN "" ELSE p]]

\* URL.setPath.
SetPath(u, p) == SetPathTo(u, p, Unescape(p, "path"))

\* URL.setFragment for the unescaped fragment.
SetFragmentTo(u, f, frag) ==
  IF ~frag.ok THEN [ok |-> FALSE, u |-> EmptyURL]
  ELSE [ok |-> TRUE,
        u |-> [u EXCEPT !.Fragment = frag.val,
                        !.RawFragment = IF f = Escape(frag.val, "fragment") THEN "" ELSE f]]

\* URL.setFragment.
SetFragment(u, f) == SetFragmentTo(u, f, Unescape(f, "fragment"))

\* The authority of rest and the text after it, [a, omit, rest]: a is what
\* parseAuthority gives for the text between "//" and the next "/"; rest
\* without "//" has no authority, and omit tells that OmitHost is set.
RestAuthority(u, rest) ==
  IF (u.Scheme # "" \/ ~HasPrefix(rest, "///")) /\ HasPrefix(rest, "//")
  THEN [a |-> parseAuthority(Cut(From(rest, 3), "/").before),
        omit |-> FALSE,
        rest |-> IF Contains(From(rest, 3), "/")
                 THEN From(rest, Index(From(rest, 3), "/") + 2) ELSE ""]
  ELSE [a |-> [ok |-> TRUE, user |-> <<>>, host |-> ""],
        omit |-> u.Scheme # "" /\ HasPrefix(rest, "/"),
        rest |-> rest]

\* url.User, url.Host = the authority r.a, then URL.setPath(r.rest).
SetAuthority(u, r) ==
  IF ~r.a.ok THEN [ok |-> FALSE, u |-> EmptyURL]
  ELSE SetPath([u EXCEPT !.User = r.a.user, !.Host = r.a.host, !.OmitHost = r.omit], r.rest)

\* net/url parse, from the authority on: rest is the text after the scheme
\* and before the query, u the URL so far.
ParseAuthority(u, rest) ==
  IF ~HasPrefix(rest, "/") /\ u.Scheme # ""
  THEN [ok |-> TRUE, u |-> [u EXCEPT !.Opaque = rest]]
  ELSE IF ~HasPrefix(rest, "/") /\ Contains(Cut(rest, "/").before, ":")
  THEN [ok |-> FALSE, u |-> EmptyURL]
  ELSE SetAuthority(u, RestAuthority(u, rest))

\* net/url parse, from the query on: rest is the text after the scheme, and
\* force tells that it ends with its only "?".
ParseQuery(scheme, rest, force) ==
  ParseAuthority(IF force THEN [EmptyURL EXCEPT !.Scheme = scheme, !.ForceQuery = TRUE]
                 ELSE [EmptyURL EXCEPT !.Scheme = scheme, !.RawQuery = Cut(rest, "?").after],
                 IF force THEN SubSeq(rest, 1, Len(rest) - 1) ELSE Cut(rest, "?").before)

ParseQueryPart(scheme, rest) ==
  ParseQuery(scheme, rest, HasSuffix(rest, "?") /\ Count(rest, "?") = 1)

ParseScheme(gs) ==
  IF ~gs.ok THEN [ok |-> FALSE, u |-> EmptyURL]
  ELSE ParseQueryPart(ToLower(gs.scheme), gs.rest)

\* net/url parse(rawURL, viaRequest = false), on text without a fragment.
ParseNoFragment(rawURL) ==
  IF rawURL = "*" THEN [ok |-> TRUE, u |-> [EmptyURL EXCEPT !.Path = "*"]]
  ELSE ParseScheme(GetScheme(rawURL))

ParseFragment(r, frag) ==
  IF ~r.ok THEN [ok |-> FALSE, u |-> EmptyURL]
  ELSE IF frag = "" THEN r
  ELSE SetFragment(r.u, frag)

\* url.Parse: [ok, u].
Parse(rawURL) ==
  ParseFragment(ParseNoFragment(Cut(rawURL, "#").before), Cut(rawURL, "#").after)

\* The hint raw when it is a valid encoding of text (un is raw unescaped),
\* and text escaped otherwise.
EscapedText(raw, text, mode, un) ==
  IF raw # "" /\ ValidEncoded(raw, mode) /\ un.ok /\ un.val = text THEN raw
  ELSE IF mode = "path" /\ text = "*" THEN "*"
  ELSE Escape(text, mode)

\* URL.EscapedPath.
EscapedPath(u) == EscapedText(u.RawPath, u.Path, "path", Unescape(u.RawPath, "path"))

\* URL.EscapedFragment.
EscapedFragment(u) ==
  EscapedText(u.RawFragment, u.Fragment, "fragment", Unescape(u.RawFragment, "fragment"))

\* Userinfo.String.
UserinfoString(user) ==
  IF user = <<>> THEN ""
  ELSE Escape(user[1].username, "userPassword")
       \o (IF user[1].passwordSet THEN ":" \o Escape(user[1].password, "userPassword") ELSE "")

\* URL.String, the authority: "//", the userinfo and the host.
URLAuthority(u) ==
  IF u.Scheme # "" \/ u.Host # "" \/ u.User # <<>>
  THEN IF u.OmitHost /\ u.Host = "" /\ u.User = <<>> THEN ""
       ELSE (IF u.Host # "" \/ u.Path # "" \/ u.User # <<>> THEN "//" ELSE "")
            \o (IF u.User # <<>> THEN UserinfoString(u.User) \o "@" ELSE "")
            \o Escape(u.Host, "host")
  ELSE ""

\* URL.String, the "/" written before a path that has none, after a host.
URLSlash(u, path) == IF path # "" /\ Head(path) # "/" /\ u.Host # "" THEN "/" ELSE ""

\* URL.String up to the path: a path whose first segment holds a ":" gets
\* "./" in front when nothing was written before it.
URLBody(scheme, auth, slash, path) ==
  scheme \o auth \o slash
  \o (IF scheme \o auth \o slash = "" /\ Contains(Cut(path, "/").before, ":") THEN "./" ELSE "")
  \o path

\* URL.String up to the query, for the scheme with its ":" and the escaped
\* path.
URLPath(u, scheme, path) ==
  IF u.Opaque # "" THEN scheme \o u.Opaque
  ELSE URLBody(scheme, URLAuthority(u), URLSlash(u, path), path)

\* URL.String.
URLString(u) ==
  URLPath(u, IF u.Scheme # "" THEN u.Scheme \o ":" ELSE "", EscapedPath(u))
  \o (IF u.ForceQuery \/ u.RawQuery # "" THEN "?" \o u.RawQuery ELSE "")
  \o (IF u.Fragment # "" THEN "#" \o EscapedFragment(u) ELSE "")

(***************************************************************************)
(* net/url: Values                                                         *)
(*                                                                         *)
(* A url.Values (map[string][]string) is a function from its keys to the   *)
(* sequence of values of each key.                                         *)
(***************************************************************************)

EmptyValues == <<>>

\* Values.Get: the first value of the key, or "".
Get(m, key) ==
  IF key \in DOMAIN m /\ Len(m[key]) > 0 THEN m[key][1] ELSE ""

\* Values.Set: the key's values replaced by the one value.
Set(m, key, value) ==
  [k \in (DOMAIN m) \cup {key} |-> IF k = key THEN <<value>> ELSE m[k]]

\* m[key] = append(m[key], value).
Add(m, key, value) ==
  [k \in (DOMAIN m) \cup {key} |->
     IF k = key THEN (IF key \in DOMAIN m THEN Append(m[key], value) ELSE <<value>>)
     ELSE m[k]]

\* One pair of net/url parseQuery, key and val being its unescaped parts: a
\* pair holding ";" or a malformed escape is skipped (URL.Query drops the
\* error), and so is an empty one.
AddPair(m, pair, key, val) ==
  IF Contains(pair, ";") \/ pair = "" \/ ~key.ok \/ ~val.ok THEN m
  ELSE Add(m, key.val, val.val)

\* net/url parseQuery.
RECURSIVE ParseQueryInto(_, _)
ParseQueryInto(m, query) ==
  IF query = "" THEN m
  ELSE ParseQueryInto(AddPair(m, Cut(query, "&").before,
                              Unescape(Cut(Cut(query, "&").before, "=").before, "query"),
                              Unescape(Cut(Cut(query, "&").before, "=").after, "query")),
                      Cut(query, "&").after)

\* URL.Query.
Query(u) == ParseQueryInto(EmptyValues, u.RawQuery)

\* The keys of a set in Go's string order.
RECURSIVE SortKeys(_)
SortKeys(ks) ==
  IF ks = {} THEN <<>>
  ELSE LET k == CHOOSE a \in ks : \A b \in ks \ {a} : StrLess(a, b)
       IN  <<k>> \o SortKeys(ks \ {k})

RECURSIVE EncodeKey(_, _)
EncodeKey(key, vals) ==
  IF vals = <<>> THEN <<>>
  ELSE <<QueryEscape(key) \o "=" \o QueryEscape(Head(vals))>> \o EncodeKey(key, Tail(vals))

RECURSIVE EncodePairs(_, _)
EncodePairs(m, keys) ==
  IF keys = <<>> THEN <<>>
  ELSE EncodeKey(Head(keys), m[Head(keys)]) \o EncodePairs(m, Tail(keys))

RECURSIVE JoinAmp(_)
JoinAmp(pairs) ==
  IF pairs = <<>> THEN ""
  ELSE IF Len(pairs) = 1 THEN pairs[1]
  ELSE pairs[1] \o "&" \o JoinAmp(Tail(pairs))

\* Values.Encode: "k=v&k=v" sorted by key, keys and values query-escaped.
Encode(m) == JoinAmp(EncodePairs(m, SortKeys(DOMAIN m)))

(***************************************************************************)
(* strconv                                                                 *)
(***************************************************************************)

AllDigits(s) == \A i \in 1..Len(s) : IsDigit(Char(s, i))

\* The value of a string of decimal digits.
RECURSIVE DecimalValue(_)
DecimalValue(s) ==
  IF s = "" THEN 0
  ELSE 10 * DecimalValue(SubSeq(s, 1, Len(s) - 1)) + DigitVal(Char(s, Len(s)))

\* s without its leading zeros.
StripZeros(s) ==
  IF \A i \in 1..Len(s) : Char(s, i) = "0" THEN ""
  ELSE From(s, CHOOSE i \in 1..Len(s) :
                 Char(s, i) # "0" /\ \A j \in 1..(i - 1) : Char(s, j) = "0")

\* strconv.ParseInt(s, 10, 0): [ok, val].  A sign, then decimal digits only;
\* a numeral of more than 19 significant digits is out of the range of int64.
\* Values of 10 to 19 significant digits are beyond the integers of the model
\* checker and are not modelled.
ParseInt(s) ==
  LET neg    == s # "" /\ Head(s) = "-"
      digits == IF s # "" /\ Head(s) \in {"+", "-"} THEN Tail(s) ELSE s
      sig    == StripZeros(digits)
  IN  IF digits = "" \/ ~AllDigits(digits) THEN [ok |-> FALSE, val |-> 0]
      ELSE IF Len(sig) > 19 THEN [ok |-> FALSE, val |-> 0]
      ELSE [ok |-> TRUE, val |-> IF neg THEN 0 - DecimalValue(sig) ELSE DecimalValue(sig)]

\* strconv.FormatInt(n, 10).
RECURSIVE FormatUint(_)
FormatUint(n) ==
  IF n < 10 THEN Chr(48 + n)
  ELSE FormatUint(n \div 10) \o Chr(48 + (n % 10))

FormatInt(n) == IF n < 0 THEN "-" \o FormatUint(0 - n) ELSE FormatUint(n)

(***************************************************************************)
(* time                                                                    *)
(*                                                                         *)
(* A time.Time is the record of its wall clock reading and of the offset   *)
(* from UTC, in seconds, of its location at that instant.                  *)
(***************************************************************************)

\* The zero Time: January 1, year 1, 00:00:00 UTC.
ZeroTime ==
  [year |-> 1, month |-> 1, day |-> 1, hour |-> 0, min |-> 0, sec |-> 0,
   nsec |-> 0, off |-> 0]

\* time isLeap, in the proleptic Gregorian calendar (year 0 is a leap year).
IsLeap(year) == year % 4 = 0 /\ (year % 100 # 0 \/ year % 400 = 0)

\* time daysIn.
DaysIn(month, year) ==
  IF month = 2 THEN (IF IsLeap(year) THEN 29 ELSE 28)
  ELSE IF month \in {4, 6, 9, 11} THEN 30
  ELSE 31

\* time daysBefore: the days of the year before the first of month.
DaysBefore(month, year) ==
  <<0, 31, 59, 90, 120, 151, 181, 212, 243, 273, 304, 334>>[month]
  + (IF month > 2 /\ IsLeap(year) THEN 1 ELSE 0)

\* The days from January 1 of year 1 to the date of t, negative for a date
\* before it (time daysSinceEpoch and the day of the year): 365 a year, and
\* a day for every leap year gone by, counted with the floor of the division.
DaysFromZero(t) ==
  365 * (t.year - 1) + ((t.year - 1) \div 4) - ((t.year - 1) \div 100)
  + ((t.year - 1) \div 400) + DaysBefore(t.month, t.year) + t.day - 1

\* The seconds from the zero instant to the wall clock of t are the seconds
\* east of UTC it is read in: the offset is a whole number of days less the
\* second of the day, and the date is that many days from January 1, year 1.
AtZeroSecond(t, ahead) == ahead % 86400 = 0 /\ DaysFromZero(t) = ahead \div 86400

\* Time.IsZero: the instant is January 1, year 1, 00:00:00 UTC, whatever the
\* offset it is read in.
IsZero(t) ==
  /\ t.nsec = 0
  /\ AtZeroSecond(t, t.off - (t.hour * 3600 + t.min * 60 + t.sec))

\* n in decimal, padded with zeros to at least w digits.
RECURSIVE Pad(_, _)
Pad(n, w) ==
  IF w <= 1 THEN FormatUint(n)
  ELSE IF n < 10 THEN "0" \o Pad(n, w - 1)
  ELSE Pad(n \div 10, w - 1) \o Chr(48 + (n % 10))

\* time appendInt: a "-" for a negative n, then its absolute value padded
\* with zeros to at least w digits.
PadInt(n, w) == IF n < 0 THEN "-" \o Pad(0 - n, w) ELSE Pad(n, w)

\* s without its trailing zeros.
TrimZeros(s) ==
  IF \A i \in 1..Len(s) : Char(s, i) = "0" THEN ""
  ELSE SubSeq(s, 1, CHOOSE i \in 1..Len(s) :
                      Char(s, i) # "0" /\ \A j \in (i + 1)..Len(s) : Char(s, j) = "0")

\* Time.Format(time.RFC3339Nano), layout "2006-01-02T15:04:05.999999999Z07:00":
\* the year with its sign, the fraction without trailing zeros, "Z" for
\* offset 0, and otherwise the offset in whole minutes (zone := offset / 60,
\* rounded towards zero) with the sign of that number of minutes.
TimeFormat(t) ==
  LET frac == TrimZeros(Pad(t.nsec, 9))
      zone == (IF t.off < 0 THEN 0 - t.off ELSE t.off) \div 60
  IN  PadInt(t.year, 4) \o "-" \o Pad(t.month, 2) \o "-" \o Pad(t.day, 2) \o "T"
      \o Pad(t.hour, 2) \o ":" \o Pad(t.min, 2) \o ":" \o Pad(t.sec, 2)
      \o (IF frac = "" THEN "" ELSE "." \o frac)
      \o (IF t.off = 0 THEN "Z"
          ELSE (IF t.off < 0 /\ zone > 0 THEN "-" ELSE "+")
               \o Pad(zone \div 60, 2) \o ":" \o Pad(zone % 60, 2))

\* A field of digits within [lo, hi].
InRange(s, lo, hi) ==
  AllDigits(s) /\ DecimalValue(s) >= lo /\ DecimalValue(s) <= hi

\* The number of digits s starts with.
LeadingDigits(s) ==
  IF AllDigits(s) THEN Len(s)
  ELSE (CHOOSE i \in 1..Len(s) :
          ~IsDigit(Char(s, i)) /\ \A j \in 1..(i - 1) : IsDigit(Char(s, j))) - 1

\* time.Parse(time.RFC3339Nano, s): [ok, t].  The layout is read chunk by
\* chunk, each operator below taking the text v that is left and the time t
\* read so far.

BadTimeText == [ok |-> FALSE, t |-> ZeroTime]

\* The end of the text, and the test of the day against its month.
ParseTimeEnd(t, v) ==
  IF v = "" /\ t.day >= 1 /\ t.day <= DaysIn(t.month, t.year) THEN [ok |-> TRUE, t |-> t]
  ELSE BadTimeText

\* "Z07:00": "Z", or a sign, two digits, ":" and two digits, for hours up
\* to 24 and minutes up to 60.
ParseTimeZone(t, v) ==
  IF HasPrefix(v, "Z") THEN ParseTimeEnd(t, Tail(v))
  ELSE IF /\ Len(v) >= 6
          /\ Char(v, 4) = ":"
          /\ InRange(SubSeq(v, 2, 3), 0, 24)
          /\ InRange(SubSeq(v, 5, 6), 0, 60)
          /\ Char(v, 1) \in {"+", "-"}
  THEN ParseTimeEnd([t EXCEPT !.off = (IF Char(v, 1) = "-" THEN 0 - 1 ELSE 1)
                                      * (DecimalValue(SubSeq(v, 2, 3)) * 60
                                         + DecimalValue(SubSeq(v, 5, 6))) * 60],
                    From(v, 7))
  ELSE BadTimeText

\* ".999999999" once the text starts with n digits after a "." or a ",":
\* parseNanoseconds keeps the first nine.
ParseTimeDigits(t, v, n) ==
  ParseTimeZone([t EXCEPT !.nsec = DecimalValue(SubSeq(SubSeq(v, 2, n + 1) \o "000000000", 1, 9))],
                From(v, n + 2))

\* ".999999999": the fraction may be left out.
ParseTimeFraction(t, v) ==
  IF Len(v) >= 2 /\ Head(v) \in {".", ","} /\ IsDigit(Char(v, 2))
  THEN ParseTimeDigits(t, v, LeadingDigits(Tail(v)))
  ELSE ParseTimeZone(t, v)

\* ":05": two digits, below 60.
ParseTimeSecond(t, v) ==
  IF Len(v) >= 3 /\ Head(v) = ":" /\ InRange(SubSeq(v, 2, 3), 0, 59)
  THEN ParseTimeFraction([t EXCEPT !.sec = DecimalValue(SubSeq(v, 2, 3))], From(v, 4))
  ELSE BadTimeText

\* ":04": two digits, below 60.
ParseTimeMinute(t, v) ==
  IF Len(v) >= 3 /\ Head(v) = ":" /\ InRange(SubSeq(v, 2, 3), 0, 59)
  THEN ParseTimeSecond([t EXCEPT !.min = DecimalValue(SubSeq(v, 2, 3))], From(v, 4))
  ELSE BadTimeText

\* "T15": one digit, or two when a second digit follows, below 24.
ParseTimeHour(t, v) ==
  IF Len(v) >= 3 /\ Head(v) = "T" /\ IsDigit(Char(v, 2)) /\ IsDigit(Char(v, 3))
  THEN IF DecimalValue(SubSeq(v, 2, 3)) < 24
       THEN ParseTimeMinute([t EXCEPT !.hour = DecimalValue(SubSeq(v, 2, 3))], From(v, 4))
       ELSE BadTimeText
  ELSE IF Len(v) >= 2 /\ Head(v) = "T" /\ IsDigit(Char(v, 2))
  THEN ParseTimeMinute([t EXCEPT !.hour = DigitVal(Char(v, 2))], From(v, 3))
  ELSE BadTimeText

\* "-02": two digits; the day is tested at the end.
ParseTimeDay(t, v) ==
  IF Len(v) >= 3 /\ Head(v) = "-" /\ AllDigits(SubSeq(v, 2, 3))
  THEN ParseTimeHour([t EXCEPT !.day = DecimalValue(SubSeq(v, 2, 3))], From(v, 4))
  ELSE BadTimeText

\* "-01": two digits, from 1 to 12.
ParseTimeMonth(t, v) ==
  IF Len(v) >= 3 /\ Head(v) = "-" /\ InRange(SubSeq(v, 2, 3), 1, 12)
  THEN ParseTimeDay([t EXCEPT !.month = DecimalValue(SubSeq(v, 2, 3))], From(v, 4))
  ELSE BadTimeText

\* "2006": four digits.
TimeParse(s) ==
  IF Len(s) >= 4 /\ AllDigits(SubSeq(s, 1, 4))
  THEN ParseTimeMonth([ZeroTime EXCEPT !.year = DecimalValue(SubSeq(s, 1, 4))], From(s, 5))
  ELSE BadTimeText

(***************************************************************************)
(* crypto/sha256, crypto/hmac, encoding/base64                             *)
(*                                                                         *)
(* A byte is its value, a text the sequence of the bytes of its            *)
(* characters.  A 32 bit word is the pair <<hi, lo>> of its two 16 bit     *)
(* halves, so that no number passes the integers of the model checker.     *)
(***************************************************************************)

\* []byte(s).
Bytes(s) == [i \in 1..Len(s) |-> Ord[Char(s, i)]]

\* The bitwise "xor" or "and" of the n low bits of a and b.
RECURSIVE Bitwise(_, _, _, _)
Bitwise(op, a, b, n) ==
  IF n = 0 THEN 0
  ELSE (IF op = "xor" THEN (a + b) % 2 ELSE (a % 2) * (b % 2))
       + 2 * Bitwise(op, a \div 2, b \div 2, n - 1)

XorW(a, b) == <<Bitwise("xor", a[1], b[1], 16), Bitwise("xor", a[2], b[2], 16)>>

AndW(a, b) == <<Bitwise("and", a[1], b[1], 16), Bitwise("and", a[2], b[2], 16)>>

NotW(a) == <<65535 - a[1], 65535 - a[2]>>

\* w >> n, for n below 16.
ShR(w, n) == <<w[1] \div 2^n, (w[2] \div 2^n) + (w[1] % 2^n) * 2^(16 - n)>>

\* w rotated right by n, for n below 16.
RotHalf(w, n) ==
  <<(w[1] \div 2^n) + (w[2] % 2^n) * 2^(16 - n),
    (w[2] \div 2^n) + (w[1] % 2^n) * 2^(16 - n)>>

\* bits.RotateLeft32(w, -n).
RotR(w, n) == IF n >= 16 THEN RotHalf(<<w[2], w[1]>>, n - 16) ELSE RotHalf(w, n)

\* The sum of the halves at place h of the words ws.
RECURSIVE SumHalf(_, _)
SumHalf(ws, h) == IF ws = <<>> THEN 0 ELSE Head(ws)[h] + SumHalf(Tail(ws), h)

\* The sum of the words ws, modulo 2^32.
AddW(ws) == <<(SumHalf(ws, 1) + (SumHalf(ws, 2) \div 65536)) % 65536, SumHalf(ws, 2) % 65536>>

\* The constants of SHA-256 (crypto/sha256: _K and the initial hash value).
K256 ==
  <<<<17034, 12184>>, <<28983, 17553>>, <<46528, 64463>>, <<59829, 56229>>,
     <<14678, 49755>>, <<23025, 4593>>, <<37439, 33444>>, <<43804, 24277>>,
     <<55303, 43672>>, <<4739, 23297>>, <<9265, 34238>>, <<21772, 32195>>,
     <<29374, 23924>>, <<32990, 45566>>, <<39900, 1703>>, <<49563, 61812>>,
     <<58523, 27073>>, <<61374, 18310>>, <<4033, 40390>>, <<9228, 41420>>,
     <<11753, 11375>>, <<19060, 33962>>, <<23728, 43484>>, <<30457, 35034>>,
     <<38974, 20818>>, <<43057, 50797>>, <<45059, 10184>>, <<48985, 32711>>,
     <<50912, 3059>>, <<54695, 37191>>, <<1738, 25425>>, <<5161, 10599>>,
     <<10167, 2693>>, <<11803, 8504>>, <<19756, 28156>>, <<21304, 3347>>,
     <<25866, 29524>>, <<30314, 2747>>, <<33218, 51502>>, <<37490, 11397>>,
     <<41663, 59553>>, <<43034, 26187>>, <<49739, 35696>>, <<51052, 20899>>,
     <<53650, 59417>>, <<54937, 1572>>, <<62478, 13701>>, <<4202, 41072>>,
     <<6564, 49430>>, <<7735, 27656>>, <<10056, 30540>>, <<13488, 48309>>,
     <<14620, 3251>>, <<20184, 43594>>, <<23452, 51791>>, <<26670, 28659>>,
     <<29839, 33518>>, <<30885, 25455>>, <<33992, 30740>>, <<36039, 520>>,
     <<37054, 65530>>, <<42064, 27883>>, <<48889, 41975>>, <<50801, 30962>> >>

H256 ==
  <<<<27145, 58983>>, <<47975, 44677>>, <<15470, 62322>>, <<42319, 62778>>,
     <<20750, 21119>>, <<39685, 26764>>, <<8067, 55723>>, <<23520, 52505>> >>

\* The message schedule: the 16 words of a block, extended to 64.
RECURSIVE Schedule(_)
Schedule(w) ==
  IF Len(w) = 64 THEN w
  ELSE Schedule(Append(w,
         AddW(<<XorW(XorW(RotR(w[Len(w) - 1], 17), RotR(w[Len(w) - 1], 19)), ShR(w[Len(w) - 1], 10)),
                w[Len(w) - 6],
                XorW(XorW(RotR(w[Len(w) - 14], 7), RotR(w[Len(w) - 14], 18)), ShR(w[Len(w) - 14], 3)),
                w[Len(w) - 15]>>)))

\* One round on the working variables s = <<a, b, c, d, e, f, g, h>>.
Temp1(s, w, k) ==
  AddW(<<s[8],
         XorW(XorW(RotR(s[5], 6), RotR(s[5], 11)), RotR(s[5], 25)),
         XorW(AndW(s[5], s[6]), AndW(NotW(s[5]), s[7])),
         k, w>>)

Temp2(s) ==
  AddW(<<XorW(XorW(RotR(s[1], 2), RotR(s[1], 13)), RotR(s[1], 22)),
         XorW(XorW(AndW(s[1], s[2]), AndW(s[1], s[3])), AndW(s[2], s[3]))>>)

Round(s, t1, t2) ==
  <<AddW(<<t1, t2>>), s[1], s[2], s[3], AddW(<<s[4], t1>>), s[5], s[6], s[7]>>

\* The working variables after the rounds t to 64.
RECURSIVE Rounds(_, _, _)
Rounds(s, w, t) ==
  IF Len(s) = 8 /\ t <= 64
  THEN Rounds(Round(s, Temp1(s, w[t], K256[t]), Temp2(s)), w, t + 1)
  ELSE s

\* The 16 words of the 64 bytes of block, big-endian.
BlockWords(block) ==
  [j \in 1..16 |-> <<block[4 * j - 3] * 256 + block[4 * j - 2],
                     block[4 * j - 1] * 256 + block[4 * j]>>]

\* The hash value h after a block that left the working variables s.
Compress(h, s) ==
  <<AddW(<<h[1], s[1]>>), AddW(<<h[2], s[2]>>), AddW(<<h[3], s[3]>>), AddW(<<h[4], s[4]>>),
    AddW(<<h[5], s[5]>>), AddW(<<h[6], s[6]>>), AddW(<<h[7], s[7]>>), AddW(<<h[8], s[8]>>)>>

\* The hash value h after the blocks of the padded message bytes from the
\* byte at place i on.
RECURSIVE Sha256Blocks(_, _, _)
Sha256Blocks(h, bytes, i) ==
  IF Len(h) # 8 \/ i > Len(bytes) THEN h
  ELSE Sha256Blocks(Compress(h, Rounds(h, Schedule(BlockWords(SubSeq(bytes, i, i + 63))), 1)),
                    bytes, i + 64)

\* The padding: 0x80, zeros up to 56 modulo 64, and the length in bits on
\* eight bytes (texts stay below 2^24 bytes).
Sha256Pad(n) ==
  <<128>> \o [i \in 1..((119 - (n % 64)) % 64) |-> 0]
  \o <<0, 0, 0, 0, 0, (n * 8) \div 65536, ((n * 8) \div 256) % 256, (n * 8) % 256>>

\* The bytes of the words ws, big-endian.
WordBytes(ws) ==
  [i \in 1..(4 * Len(ws)) |->
     IF i % 4 = 1 THEN ws[(i + 3) \div 4][1] \div 256
     ELSE IF i % 4 = 2 THEN ws[(i + 3) \div 4][1] % 256
     ELSE IF i % 4 = 3 THEN ws[(i + 3) \div 4][2] \div 256
     ELSE ws[(i + 3) \div 4][2] % 256]

\* sha256.Sum256(bytes), as 32 bytes.
Sha256(bytes) == WordBytes(Sha256Blocks(H256, bytes \o Sha256Pad(Len(bytes)), 1))

\* The key of an HMAC on 64 bytes: hashed when longer, filled with zeros.
HmacKey(key) ==
  (IF Len(key) > 64 THEN Sha256(key) ELSE key)
  \o [i \in 1..(64 - (IF Len(key) > 64 THEN 32 ELSE Len(key))) |-> 0]

\* Each byte of bytes xor the byte pad.
XorPad(bytes, pad) == [i \in 1..Len(bytes) |-> Bitwise("xor", bytes[i], pad, 8)]

\* hmac.New(sha256.New, key), Write(message), Sum(nil).
HmacSha256(key, message) ==
  Sha256(XorPad(HmacKey(key), 92) \o Sha256(XorPad(HmacKey(key), 54) \o message))

Base64Chars == "ABCDEFGHIJKLMNOPQRSTUVWXYZabcdefghijklmnopqrstuvwxyz0123456789+/"

\* The four characters for the n <= 3 bytes of b from place i on.
Base64Group(b, i, n) ==
  Char(Base64Chars, (b[i] \div 4) + 1)
  \o Char(Base64Chars, (b[i] % 4) * 16 + (IF n > 1 THEN b[i + 1] \div 16 ELSE 0) + 1)
  \o (IF n > 1
      THEN Char(Base64Chars, (b[i + 1] % 16) * 4 + (IF n > 2 THEN b[i + 2] \div 64 ELSE 0) + 1)
      ELSE "=")
  \o (IF n > 2 THEN Char(Base64Chars, (b[i + 2] % 64) + 1) ELSE "=")

\* base64.StdEncoding.EncodeToString.
Base64(b) ==
  ConcatRange([g \in 1..((Len(b) + 2) \div 3) |->
                 Base64Group(b, 3 * g - 2, IF 3 * g <= Len(b) THEN 3 ELSE Len(b) - 3 * g + 3)],
              1, (Len(b) + 2) \div 3)

\* The digests base64.StdEncoding.EncodeToString(HMAC-SHA256(key, payload))
\* of the keys and payloads the inputs below lead to, in FormatURL, in the
\* variants of its steps and under a key loaded beside a SetKey:
\* <<key, payload>> :> digest.  Each is
\* Base64(HmacSha256(Bytes(key), Bytes(payload))).
Digests ==
  <<"",
     "data:image/png;base64,iVBORw0KGgo=?timeExpired=2030-01-02T03%3A04%3A05Z">>
    :> "FHz/viqUnQOI1TojfW47V1f7nezIhCaG+PqMG1rxcTY="
  @@ <<"sk-test-1",
     "data:image/png;base64,iVBORw0KGgo=?timeExpired=2030-01-02T03%3A04%3A05Z">>
    :> "Lp5fiQsUzIQWnUUxh9VB8mSD652pegupvEhKmn6Gr1M="
  @@ <<"sk-test-2",
     "data:image/png;base64,iVBORw0KGgo=?timeExpired=2030-01-02T03%3A04%3A05Z">>
    :> "nfPMcjriPs6zwj4cnVJ4aCLgE/JXcrrTLpMr5QupI8M="
  @@ <<"",
     "data:image/png;base64,iVBORw0KGgo=?timeExpired=2031-12-31T23%3A59%3A59.12-05%3A30">>
    :> "pWP2VQdWOKZ6XNDIbbYD/YBMEMuknwCihxsLuOiOXhc="
  @@ <<"sk-test-1",
     "data:image/png;base64,iVBORw0KGgo=?timeExpired=2031-12-31T23%3A59%3A59.12-05%3A30">>
    :> "YTvQ8QdiQ6lEYtyaSe3O0kbKOotNkGguwg+F3uTCyRg="
  @@ <<"sk-test-2",
     "data:image/png;base64,iVBORw0KGgo=?timeExpired=2031-12-31T23%3A59%3A59.12-05%3A30">>
    :> "b+YAExpfI332aI4RbXzyx0PqYgnEahdtZ8/mb+nFrKw="
  @@ <<"",
     "foo.ospry.io/bar/baz.png?timeExpired=2030-01-02T03%3A04%3A05Z">>
    :> "BBSTOqCdSgo78kXMf0ancxLPXIQiADiLXLWGxGycAgU="
  @@ <<"sk-test-1",
     "foo.ospry.io/bar/baz.png?timeExpired=2030-01-02T03%3A04%3A05Z">>
    :> "YpwLV6jnpbL/d/URd01WAORyX+FdH7y0zGQbmZuEJGo="
  @@ <<"sk-test-2",
     "foo.ospry.io/bar/baz.png?timeExpired=2030-01-02T03%3A04%3A05Z">>
    :> "/cO1NmSbBScAvyNu5+BIiHyxntQnPca5zlD3VveVWBM="
  @@ <<"",
     "foo.ospry.io/bar/baz.png?timeExpired=2031-12-31T23%3A59%3A59.12-05%3A30">>
    :> "WuQWtRBnN4Ur2iGOxZlQRzvdL65b8mxCe0sXCsu3mD8="
  @@ <<"sk-test-1",
     "foo.ospry.io/bar/baz.png?timeExpired=2031-12-31T23%3A59%3A59.12-05%3A30">>
    :> "Z02MIJl/SsAl6vV8//H5GrFhOFuco8KLy3RkLr5C7ps="
  @@ <<"sk-test-2",
     "foo.ospry.io/bar/baz.png?timeExpired=2031-12-31T23%3A59%3A59.12-05%3A30">>
    :> "uIbYrJXWjK7OKdG/YXOqs7hMUM2P0wXboyYh9Ncq1l8="
  @@ <<"",
     "http://foo.ospry.io/a%20b%20c.png?timeExpired=2030-01-02T03%3A04%3A05Z">>
    :> "Z82TRCBLIPKGjxRh5AOi6pMPRy66azQXFuUg8ptt0S0="
  @@ <<"sk-test-1",
     "http://foo.ospry.io/a%20b%20c.png?timeExpired=2030-01-02T03%3A04%3A05Z">>
    :> "oE886yI6W/eXKPzhY2mbwT5r2xLAvrbbsI0q+NwP8OQ="
  @@ <<"sk-test-2",
     "http://foo.ospry.io/a%20b%20c.png?timeExpired=2030-01-02T03%3A04%3A05Z">>
    :> "XXtYOzGLNyAwIX0Yu3mqRLMzPy0zGQFaD34pVf3TqIQ="
  @@ <<"",
     "http://foo.ospry.io/a%20b%20c.png?timeExpired=2031-12-31T23%3A59%3A59.12-05%3A30">>
    :> "skv6xACdXnpHJ/ibMIxElaqjw5ZMSL+nPyfUAeQ92to="
  @@ <<"sk-test-1",
     "http://foo.ospry.io/a%20b%20c.png?timeExpired=2031-12-31T23%3A59%3A59.12-05%3A30">>
    :> "SvpTcXy+LcV7kEMZb+4Hj5gy2VN3m7yTma5u2FUqBHM="
  @@ <<"sk-test-2",
     "http://foo.ospry.io/a%20b%20c.png?timeExpired=2031-12-31T23%3A59%3A59.12-05%3A30">>
    :> "y+UFkbh/lL3aqyob9jlTqTkVi5XCo7xaXNL3O/D4hL0="
  @@ <<"",
     "http://foo.ospry.io/bar/baz.png#top?timeExpired=2030-01-02T03%3A04%3A05Z">>
    :> "oHCt8PC4t0VIGi2waZXy2sfc6ud9YceyhKcZAu61njI="
  @@ <<"sk-test-1",
     "http://foo.ospry.io/bar/baz.png#top?timeExpired=2030-01-02T03%3A04%3A05Z">>
    :> "HcARU/BeT9f9Kvcukw8jM8MZ4fTdS+nsh5zQE7z+my8="
  @@ <<"sk-test-2",
     "http://foo.ospry.io/bar/baz.png#top?timeExpired=2030-01-02T03%3A04%3A05Z">>
    :> "kRw1gjHXMWWmNFJZsCcwdDIe3mb66kG2tmgY2EspHZs="
  @@ <<"",
     "http://foo.ospry.io/bar/baz.png#top?timeExpired=2031-12-31T23%3A59%3A59.12-05%3A30">>
    :> "1zeVaXlRC84+OwRhudpypxBttKA7roI3y9p99pnHchU="
  @@ <<"sk-test-1",
     "http://foo.ospry.io/bar/baz.png#top?timeExpired=2031-12-31T23%3A59%3A59.12-05%3A30">>
    :> "PdUBxnaSv5sM8QC1erOU9GjtuGyXLF3/xgq7h5smL3w="
  @@ <<"sk-test-2",
     "http://foo.ospry.io/bar/baz.png#top?timeExpired=2031-12-31T23%3A59%3A59.12-05%3A30">>
    :> "1Yh1Ouh32I8MMlGSmHH0HNOev9zYQd4jcwDWHxwKPVs="
  @@ <<"",
     "http://foo.ospry.io/bar/baz.png??timeExpired=2030-01-02T03%3A04%3A05Z">>
    :> "lPuTOhjz/InIL8ll/LUBKNhDNM42FGpt++tWxtI9iMg="
  @@ <<"sk-test-1",
     "http://foo.ospry.io/bar/baz.png??timeExpired=2030-01-02T03%3A04%3A05Z">>
    :> "7NVE2+ko2uD5A/Zp6oAtHZXaoP29rrzuzyF2IO9aI+Q="
  @@ <<"sk-test-2",
     "http://foo.ospry.io/bar/baz.png??timeExpired=2030-01-02T03%3A04%3A05Z">>
    :> "FYChLAnyQbR0L7Wee1XkEVDCwKRlThKrq3+vBo2QZHY="
  @@ <<"",
     "http://foo.ospry.io/bar/baz.png??timeExpired=2031-12-31T23%3A59%3A59.12-05%3A30">>
    :> "L30hvBscndCPLAPJNDGYHRr1WTziMRStA7ND5GuDUVs="
  @@ <<"sk-test-1",
     "http://foo.ospry.io/bar/baz.png??timeExpired=2031-12-31T23%3A59%3A59.12-05%3A30">>
    :> "Hxdar8QdDr8lnDWk9emVCt/+1xZt++/8QsBm0qTDdrg="
  @@ <<"sk-test-2",
     "http://foo.ospry.io/bar/baz.png??timeExpired=2031-12-31T23%3A59%3A59.12-05%3A30">>
    :> "JfI1vE3zOxmzXbl+O+096n/tdwZJDw2pPMz9xFKQHHE="
  @@ <<"",
     "http://foo.ospry.io/bar/baz.png?timeExpired=2029-06-01T12%3A00%3A00.5Z">>
    :> "Ynl47JuKz/S8seZoSz5M/zl8kGibWnxOqKQyEpLFTLE="
  @@ <<"sk-test-1",
     "http://foo.ospry.io/bar/baz.png?timeExpired=2029-06-01T12%3A00%3A00.5Z">>
    :> "dHXxfzfG3DDHe2g7RFJ574IvXfOTFQOxVGezgo1jiY0="
  @@ <<"sk-test-2",
     "http://foo.ospry.io/bar/baz.png?timeExpired=2029-06-01T12%3A00%3A00.5Z">>
    :> "aG24LJO0MU+3UCF7fhgj4B+hW2X7XuBoMUw6lznNCHg="
  @@ <<"",
     "http://foo.ospry.io/bar/baz.png?timeExpired=2029-06-01T12%3A00%3A00Z">>
    :> "p1MMaRMniW1sXw1iNpX7oOq03y/9eKpnPE6Pzpuqtsk="
  @@ <<"sk-test-1",
     "http://foo.ospry.io/bar/baz.png?timeExpired=2029-06-01T12%3A00%3A00Z">>
    :> "B1szsTWBbndYj5HRy5Z3FQ4HiNY+p8/Bwww+6jkIO4U="
  @@ <<"sk-test-2",
     "http://foo.ospry.io/bar/baz.png?timeExpired=2029-06-01T12%3A00%3A00Z">>
    :> "zMTOvmhs5R1CIM7iCY8e7jVjvAikRcuvecdzhKJ0JZI="
  @@ <<"",
     "http://foo.ospry.io/bar/baz.png?timeExpired=2030-01-02T03%3A04%3A05Z">>
    :> "IUc9tW1+NcTaicB0Sf9rr6bkzS7e4v0kWeeQ5juajXo="
  @@ <<"sk-test-1",
     "http://foo.ospry.io/bar/baz.png?timeExpired=2030-01-02T03%3A04%3A05Z">>
    :> "eK7WEtKHN6t9ydc9X7PYIu/zIS+hND68KA9C6HJauNo="
  @@ <<"sk-test-2",
     "http://foo.ospry.io/bar/baz.png?timeExpired=2030-01-02T03%3A04%3A05Z">>
    :> "QM3txtbdbeaA8xiWUXqKPDDglsbK6kQ+QF1FzQm/a94="
  @@ <<"",
     "http://foo.ospry.io/bar/baz.png?timeExpired=2031-12-31T23%3A59%3A59.12-05%3A30">>
    :> "WnKaebtOT3TDu6mxOerjbDsgn+EKnH7BOuXZ8dou7/Y="
  @@ <<"sk-test-1",
     "http://foo.ospry.io/bar/baz.png?timeExpired=2031-12-31T23%3A59%3A59.12-05%3A30">>
    :> "FJOIKWxyWaO+pbcHaCVFgRBg7cza1oJ7YRFZAWOvUaA="
  @@ <<"sk-test-2",
     "http://foo.ospry.io/bar/baz.png?timeExpired=2031-12-31T23%3A59%3A59.12-05%3A30">>
    :> "8/AQ9vWOELYWi6IIpYL/FqUlo00yqR8UlxgQHLSu91M="
  @@ <<"",
     "http://foo.ospry.io/bar/baz.png?v=2?timeExpired=2030-01-02T03%3A04%3A05Z">>
    :> "9JHjoob4KheGnNKqecMzbdXbw2KaanH7FSjTqs4bgR8="
  @@ <<"sk-test-1",
     "http://foo.ospry.io/bar/baz.png?v=2?timeExpired=2030-01-02T03%3A04%3A05Z">>
    :> "StiZ6fBFjqoN/bGuakdCwL92rWMdc74mpcwjSSyx4Vo="
  @@ <<"sk-test-2",
     "http://foo.ospry.io/bar/baz.png?v=2?timeExpired=2030-01-02T03%3A04%3A05Z">>
    :> "7O25lr/WNldy3nXP6W0AxPRjYMHgwKXx/1XFAvLxLaI="
  @@ <<"",
     "http://foo.ospry.io/bar/baz.png?v=2?timeExpired=2031-12-31T23%3A59%3A59.12-05%3A30">>
    :> "po/H9zXEui+gAklEi0IEAcAPsnDCcq9JV5MCCHSzpfY="
  @@ <<"sk-test-1",
     "http://foo.ospry.io/bar/baz.png?v=2?timeExpired=2031-12-31T23%3A59%3A59.12-05%3A30">>
    :> "nRrAc2kyeVdaxMYSDoDrlB3GQIEani/xVAPA91NDg2w="
  @@ <<"sk-test-2",
     "http://foo.ospry.io/bar/baz.png?v=2?timeExpired=2031-12-31T23%3A59%3A59.12-05%3A30">>
    :> "OWLR9WzUBpJrkqT92bZhDzVTD44ZDuUur2I6PcOD1ZI="
  @@ <<"",
     "http://user@foo.ospry.io/bar/baz.png?timeExpired=2030-01-02T03%3A04%3A05Z">>
    :> "f1EPbHlVdeUDo7hgw4SuI8RIgWZ0PbnK9GKCrj3CfYE="
  @@ <<"",
     "http://user@foo.ospry.io/bar/baz.png?timeExpired=2031-12-31T23%3A59%3A59.12-05%3A30">>
    :> "bgsvcEwWB0suZpGaUVZQBAWwgoziaktox8AZgCR/CCE="
  @@ <<"",
     "http://[::1]:8080/bar/baz.png?timeExpired=2030-01-02T03%3A04%3A05Z">>
    :> "bJcvMHkC7Z7s6cQBppY0qtE+Jw/o9Du73Y55xUg81uI="
  @@ <<"",
     "http://[::1]:8080/bar/baz.png?timeExpired=2031-12-31T23%3A59%3A59.12-05%3A30">>
    :> "MDkCAgcQLfVXCHf1tZzNvnl9ThPn1H/NVv8LF5qebUs="
  @@ <<"",
     "http://foo.ospry.io/bar/baz.png?timeExpired=2030-01-02T03%3A04%3A05.5%2B24%3A00">>
    :> "nUvARRYF/miITXq8XdwA+pYsILyQAshkRmgvxiXVb6I="
  @@ <<"sk-test-1",
     "http://user@foo.ospry.io/bar/baz.png?timeExpired=2030-01-02T03%3A04%3A05Z">>
    :> "eQXKIsilJsf1N6Oo6ABHTMuk9dxATQ2ON7aUHjLsmy0="
  @@ <<"sk-test-1",
     "http://user@foo.ospry.io/bar/baz.png?timeExpired=2031-12-31T23%3A59%3A59.12-05%3A30">>
    :> "+15fI0IkvglaelC4oH7Q88nczShjGn7tzBBsn60gKxw="
  @@ <<"sk-test-1",
     "http://[::1]:8080/bar/baz.png?timeExpired=2030-01-02T03%3A04%3A05Z">>
    :> "TwWNM5UAgDzN4MNtCFRZ9UqsqMvgN9TSOjXNtkD0/v8="
  @@ <<"sk-test-1",
     "http://[::1]:8080/bar/baz.png?timeExpired=2031-12-31T23%3A59%3A59.12-05%3A30">>
    :> "k3mJtNtOL/w0bWqM/MjrG5KRfeeksZNx95XOUyaU13I="
  @@ <<"sk-test-1",
     "http://foo.ospry.io/bar/baz.png?timeExpired=2030-01-02T03%3A04%3A05.5%2B24%3A00">>
    :> "/NgXCETUBYUl3DIgpviYfwTTASa2Jz9C1dETvbKSndc="
  @@ <<"sk-test-2",
     "http://user@foo.ospry.io/bar/baz.png?timeExpired=2030-01-02T03%3A04%3A05Z">>
    :> "PlVjF/5p0zEV/1JKI7EybRFCo202rCCkRGKX7fVsd/k="
  @@ <<"sk-test-2",
     "http://user@foo.ospry.io/bar/baz.png?timeExpired=2031-12-31T23%3A59%3A59.12-05%3A30">>
    :> "ZfhwyWxnjypFYdRlWj2MordkI6Dxo6OdMspesICEhsU="
  @@ <<"sk-test-2",
     "http://[::1]:8080/bar/baz.png?timeExpired=2030-01-02T03%3A04%3A05Z">>
    :> "vwrnHHTg9Yv33GqdoVCXfTXF//ZKRpgn22bic6TZCrw="
  @@ <<"sk-test-2",
     "http://[::1]:8080/bar/baz.png?timeExpired=2031-12-31T23%3A59%3A59.12-05%3A30">>
    :> "3HE50/4CWc2/xUmWaVCXQbAD+u8RXTk8LQAaoI3mld0="
  @@ <<"sk-test-2",
     "http://foo.ospry.io/bar/baz.png?timeExpired=2030-01-02T03%3A04%3A05.5%2B24%3A00">>
    :> "rvzzsfRv0qmVK9geUlJBNCsdSwChcZNEu0lA7C989zI="
  @@ <<"",
     "https://api.ospry.io/?timeExpired=2029-06-01T12%3A00%3A00Z">>
    :> "zaT4sY2z7u5bzuDsZP1b6t+VzQeRR7+9J2DArhomsvQ="
  @@ <<"",
     "https://api.ospry.io/?timeExpired=2030-01-02T03%3A04%3A05Z">>
    :> "P1yz2zK9zuJ2cfu+xflYMG/NlhxulRFHS4s+Mbez+WQ="
  @@ <<"",
     "https://api.ospry.io/?timeExpired=2031-12-31T23%3A59%3A59.12-05%3A30">>
    :> "imPPeCoiFSWDIm0yjiLlwXXiaLnI9tJq19IbPblmM58="
  @@ <<"sk-test-1",
     "https://api.ospry.io/?timeExpired=2029-06-01T12%3A00%3A00Z">>
    :> "Yuq3qzAGr24iKcLukLOzqSDcsDMkQHXED15Y9ohV5TU="
  @@ <<"sk-test-1",
     "https://api.ospry.io/?timeExpired=2030-01-02T03%3A04%3A05Z">>
    :> "PcRpwVKupqixDBVpoitYg6sbkvPS37iRzaj8F+JgCUo="
  @@ <<"sk-test-1",
     "https://api.ospry.io/?timeExpired=2031-12-31T23%3A59%3A59.12-05%3A30">>
    :> "iAq2Un01DkY0V8Ecf0dOoJoswYdOe6bU6H0UkKdzjpk="
  @@ <<"sk-test-2",
     "https://api.ospry.io/?timeExpired=2029-06-01T12%3A00%3A00Z">>
    :> "eGfvLxDgb22t3C+K6FhCYOS8lf1HWfHQv52hCeiN/2k="
  @@ <<"sk-test-2",
     "https://api.ospry.io/?timeExpired=2030-01-02T03%3A04%3A05Z">>
    :> "bItJjv+WLTJ51cFa0V1ZY/dxU2QXXT/onSt4AGfcuWQ="
  @@ <<"sk-test-2",
     "https://api.ospry.io/?timeExpired=2031-12-31T23%3A59%3A59.12-05%3A30">>
    :> "l6VYWOQMU+xnQi3/bppQauq0fL+9NClDc/zL/JjVouY="
  @@ <<"~~~~~~~~~",
     "http://foo.ospry.io/bar/baz.png?timeExpired=2029-06-01T12%3A00%3A00Z">>
    :> "FL8hsiyY+yLNXE3snKkdfvDVGjdYKx357Lm+1zrvC94="
  @@ <<"~~~~~~~~~",
     "http://foo.ospry.io/bar/baz.png?timeExpired=2030-01-02T03%3A04%3A05Z">>
    :> "yVuqmmhE2FefdqUpHLH39RWADEI459BBr3xTbuVCGmQ="
  @@ <<"",
     "http://foo.ospry.io/bar/baz.png?timeExpired=10000-01-02T03%3A04%3A05Z">>
    :> "J/5iHi0Kc5QJmbg1GScNPeOai33E41MrsL8l34O7BHQ="
  @@ <<"",
     "http://foo.ospry.io/bar/baz.png?timeExpired=2030-01-02T03%3A04%3A05%2B00%3A00">>
    :> "8xsAidJJl685Pi53csABWcPkA0H1pixv8b2LCKEZogo="
  @@ <<"",
     "http://foo.ospry.io/bar/baz.png??timeExpired=10000-01-02T03%3A04%3A05Z">>
    :> "QAGMeXYh1J1R3LuJtDnyG0bDcrtAgiPismXw8fsAsbU="
  @@ <<"",
     "http://foo.ospry.io/bar/baz.png??timeExpired=2030-01-02T03%3A04%3A05%2B00%3A00">>
    :> "u90L7AqwpY7wj4o+6s42UGL0xHiBm+cufTSUQdFv+OM="
  @@ <<"sk-test-1",
     "http://foo.ospry.io/bar/baz.png?timeExpired=10000-01-02T03%3A04%3A05Z">>
    :> "zOFvN7B4lbg3UeULjpwnjA7BkfCoAnXdCqb8vj4NQUY="
  @@ <<"sk-test-1",
     "http://foo.ospry.io/bar/baz.png?timeExpired=2030-01-02T03%3A04%3A05%2B00%3A00">>
    :> "BDpkyHbWq87sJTRKvo7lw2RZcT+OpE/W6gDnzHYGCn0="
  @@ <<"sk-test-1",
     "http://foo.ospry.io/bar/baz.png??timeExpired=10000-01-02T03%3A04%3A05Z">>
    :> "RD9N0fCePTGKKBTOtScIZVEBtaAMxk2BD1J7SuRWYn0="
  @@ <<"sk-test-1",
     "http://foo.ospry.io/bar/baz.png??timeExpired=2030-01-02T03%3A04%3A05%2B00%3A00">>
    :> "wjEMdWY152ZiTMclqn3wTFAEHnrDtDsjjK6YwghEaBc="

\* The signature of lines 334-336: the HMAC-SHA256 of the payload under the
\* key, in base64.  Digests holds the values for the keys and payloads of
\* the inputs, so that they are not computed again in every state.
Signature(key, payload) ==
  IF <<key, payload>> \in DOMAIN Digests THEN Digests[<<key, payload>>]
  ELSE Base64(HmacSha256(Bytes(key), Bytes(payload)))

(***************************************************************************)
(* ospry: RenderOpts, Client                                               *)
(***************************************************************************)

\* var Formats (src/ospry.go:60).
Formats == <<"jpeg", "png", "gif">>

\* The zero RenderOpts.
ZeroOpts == [Format |-> "", MaxHeight |-> 0, MaxWidth |-> 0, TimeExpired |-> ZeroTime]

\* New(key).
New(key) == [Key |-> key, ServerURL |-> "https://api.ospry.io/v1"]

(***************************************************************************)
(* Client.FormatURL (src/ospry.go:279-371), statement by statement.        *)
(*                                                                         *)
(* A call is a frame f of the method's parameters and locals; co is the    *)
(* RenderOpts instance of the caller, which f.opts may point to.  Each     *)
(* step is an operator from (f, co) to the pair after the step.            *)
(*   f.arg:  the opts argument, <<>> for nil and <<o>> for a pointer to an *)
(*           instance that held o when the call was made                   *)
(*   f.opts: "nil", "caller" (the caller's instance) or "new" (the         *)
(*           instance allocated at line 281 or 283, held in f.copy)        *)
(*   f.hmacs: the number of HMAC computations of the call so far           *)
(*   f.url, f.err: the returned values (err "" is nil) once f.pc = "done"  *)
(***************************************************************************)

IdleFrame ==
  [pc |-> "idle", recv |-> "default", urlstr |-> "", arg |-> <<>>, opts |-> "nil",
   copy |-> ZeroOpts, u |-> EmptyURL, q |-> EmptyValues, imgURL |-> "",
   hmacs |-> 0, url |-> "", err |-> ""]

\* The frame on entry: opts is the argument.
Entry(recv, urlstr, arg) ==
  [IdleFrame EXCEPT !.pc = "copy", !.recv = recv, !.urlstr = urlstr, !.arg = arg,
                    !.opts = IF arg = <<>> THEN "nil" ELSE "caller"]

\* The instance the argument points to, as the caller holds it at the call.
Pointee(arg) == IF arg = <<>> THEN ZeroOpts ELSE arg[1]

\* *opts.
Deref(f, co) == IF f.opts = "caller" THEN co ELSE f.copy

\* opts.<field> = v.
Assign(f, co, field, v) ==
  IF f.opts = "caller" THEN [f |-> f, co |-> [co EXCEPT ![field] = v]]
  ELSE [f |-> [f EXCEPT !.copy[field] = v], co |-> co]

\* return "", err.
Fail(f, co, e) == [f |-> [f EXCEPT !.pc = "done", !.url = "", !.err = e], co |-> co]

Goto(r, pc) == [r EXCEPT !.f.pc = pc]

\* Lines 280-289 without the copy of a non-nil argument: opts keeps pointing
\* to the caller's instance.  (The variant C7 is checked against.)
NewOptsShared(f, co) ==
  IF f.opts = "nil" THEN [f EXCEPT !.opts = "new", !.copy = ZeroOpts] ELSE f

\* Lines 280-289: opts becomes a new RenderOpts, zero for a nil argument and
\* a field by field copy of the caller's otherwise.
NewOpts(f, co) ==
  [f EXCEPT !.opts = "new",
            !.copy = IF f.opts = "nil" THEN ZeroOpts
                     ELSE [Format |-> co.Format, MaxHeight |-> co.MaxHeight,
                           MaxWidth |-> co.MaxWidth, TimeExpired |-> co.TimeExpired]]

StepCopy(f, co) == Goto([f |-> NewOpts(f, co), co |-> co], "parse")

\* Lines 290-294: u, err := url.Parse(urlstr); q := u.Query().
StepParse(f, co) ==
  LET p == Parse(f.urlstr)
  IN  IF ~p.ok THEN Fail(f, co, "parse: invalid URL")
      ELSE Goto([f |-> [f EXCEPT !.u = p.u, !.q = Query(p.u)], co |-> co], "format")

\* Lines 295-297.
StepFormat(f, co) ==
  IF Deref(f, co).Format = "" /\ Get(f.q, "format") # ""
  THEN Goto(Assign(f, co, "Format", Get(f.q, "format")), "maxWidth")
  ELSE Goto([f |-> f, co |-> co], "maxWidth")

\* Lines 298-304 with the error of ParseInt dropped: an unparseable maxWidth
\* is skipped.  (The variant C8 is checked against.)
StepMaxWidthLenient(f, co) ==
  IF Deref(f, co).MaxWidth = 0 /\ Get(f.q, "maxWidth") # ""
     /\ ParseInt(Get(f.q, "maxWidth")).ok
  THEN Goto(Assign(f, co, "MaxWidth", ParseInt(Get(f.q, "maxWidth")).val), "maxHeight")
  ELSE Goto([f |-> f, co |-> co], "maxHeight")

\* Lines 298-304.
StepMaxWidth(f, co) ==
  IF Deref(f, co).MaxWidth = 0 /\ Get(f.q, "maxWidth") # ""
  THEN LET mw64 == ParseInt(Get(f.q, "maxWidth"))
       IN  IF ~mw64.ok THEN Fail(f, co, "strconv.ParseInt: invalid maxWidth")
           ELSE Goto(Assign(f, co, "MaxWidth", mw64.val), "maxHeight")
  ELSE Goto([f |-> f, co |-> co], "maxHeight")

\* Lines 305-311 with the test of opts.MaxHeight dropped: the value in the
\* URL replaces the caller's.  (The variant C2 is checked against.)
StepMaxHeightURLFirst(f, co) ==
  IF Get(f.q, "maxHeight") # ""
  THEN IF ~ParseInt(Get(f.q, "maxHeight")).ok
       THEN Fail(f, co, "strconv.ParseInt: invalid maxHeight")
       ELSE Goto(Assign(f, co, "MaxHeight", ParseInt(Get(f.q, "maxHeight")).val),
                 "timeExpired")
  ELSE Goto([f |-> f, co |-> co], "timeExpired")

\* Lines 305-311.
StepMaxHeight(f, co) ==
  IF Deref(f, co).MaxHeight = 0 /\ Get(f.q, "maxHeight") # ""
  THEN LET mh64 == ParseInt(Get(f.q, "maxHeight"))
       IN  IF ~mh64.ok THEN Fail(f, co, "strconv.ParseInt: invalid maxHeight")
           ELSE Goto(Assign(f, co, "MaxHeight", mh64.val), "timeExpired")
  ELSE Goto([f |-> f, co |-> co], "timeExpired")

\* Lines 312-317.
StepTimeExpired(f, co) ==
  IF IsZero(Deref(f, co).TimeExpired) /\ Get(f.q, "timeExpired") # ""
  THEN LET t == TimeParse(Get(f.q, "timeExpired"))
       IN  IF ~t.ok THEN Fail(f, co, "time.Parse: invalid timeExpired")
           ELSE Goto(Assign(f, co, "TimeExpired", t.t), "underlying")
  ELSE Goto([f |-> f, co |-> co], "underlying")

\* Lines 318-328: the underlying image URL.
StepUnderlying(f, co) ==
  IF Get(f.q, "url") # ""
  THEN LET p == Parse(Get(f.q, "url"))
       IN  IF ~p.ok THEN Fail(f, co, "parse: invalid url parameter")
           ELSE Goto([f |-> [f EXCEPT !.imgURL = Get(f.q, "url"), !.u = p.u], co |-> co], "sign")
  ELSE LET u1 == [f.u EXCEPT !.RawQuery = ""]
       IN  Goto([f |-> [f EXCEPT !.u = u1, !.imgURL = URLString(u1)], co |-> co], "sign")

\* Line 333.
Payload(imgURL, timeExpired) == imgURL \o "?timeExpired=" \o QueryEscape(timeExpired)

\* Lines 330-342: Signed?
StepSign(f, co, key) ==
  IF ~IsZero(Deref(f, co).TimeExpired)
  THEN LET timeExpired == TimeFormat(Deref(f, co).TimeExpired)
           payload     == Payload(f.imgURL, timeExpired)
           q1 == Set(f.q, "signature", Signature(key, payload))
           q2 == Set(q1, "url", f.imgURL)
           q3 == Set(q2, "timeExpired", timeExpired)
       IN  Goto([f |-> [f EXCEPT !.q = q3, !.hmacs = @ + 1,
                                 !.u = [@ EXCEPT !.Host = "api.ospry.io", !.Path = "/",
                                                 !.Scheme = "https"]],
                 co |-> co], "checkFormat")
  ELSE Goto([f |-> f, co |-> co], "checkFormat")

\* Lines 344-356.
StepCheckFormat(f, co) ==
  IF Deref(f, co).Format # ""
  THEN IF ~(\E i \in 1..Len(Formats) : Deref(f, co).Format = Formats[i])
       THEN Fail(f, co, "ospry: invalid format " \o Deref(f, co).Format)
       ELSE Goto([f |-> [f EXCEPT !.q = Set(@, "format", Deref(f, co).Format)], co |-> co],
                 "checkMaxHeight")
  ELSE Goto([f |-> f, co |-> co], "checkMaxHeight")

\* Lines 357-362 without the test for a negative value.  (The variant C5 is
\* checked against.)
StepCheckMaxHeightUnchecked(f, co) ==
  IF Deref(f, co).MaxHeight > 0
  THEN Goto([f |-> [f EXCEPT !.q = Set(@, "maxHeight", FormatInt(Deref(f, co).MaxHeight))],
             co |-> co], "checkMaxWidth")
  ELSE Goto([f |-> f, co |-> co], "checkMaxWidth")

\* Lines 357-362.
StepCheckMaxHeight(f, co) ==
  IF Deref(f, co).MaxHeight < 0 THEN Fail(f, co, "ospry: MaxHeight can't be negative")
  ELSE IF Deref(f, co).MaxHeight > 0
  THEN Goto([f |-> [f EXCEPT !.q = Set(@, "maxHeight", FormatInt(Deref(f, co).MaxHeight))],
             co |-> co], "checkMaxWidth")
  ELSE Goto([f |-> f, co |-> co], "checkMaxWidth")

\* Lines 363-368.
StepCheckMaxWidth(f, co) ==
  IF Deref(f, co).MaxWidth < 0 THEN Fail(f, co, "ospry: MaxWidth can't be negative")
  ELSE IF Deref(f, co).MaxWidth > 0
  THEN Goto([f |-> [f EXCEPT !.q = Set(@, "maxWidth", FormatInt(Deref(f, co).MaxWidth))],
             co |-> co], "encode")
  ELSE Goto([f |-> f, co |-> co], "encode")

\* Lines 369-370: u.RawQuery = q.Encode(); return u.String(), nil.
StepEncode(f, co) ==
  LET u1 == [f.u EXCEPT !.RawQuery = Encode(f.q)]
  IN  [f |-> [f EXCEPT !.pc = "done", !.u = u1, !.url = URLString(u1), !.err = ""],
       co |-> co]

\* The step at f.pc; key is the receiver's Key.
Step(f, co, key) ==
  CASE f.pc = "copy"           -> StepCopy(f, co)
    [] f.pc = "parse"          -> StepParse(f, co)
    [] f.pc = "format"         -> StepFormat(f, co)
    [] f.pc = "maxWidth"       -> StepMaxWidth(f, co)
    [] f.pc = "maxHeight"      -> StepMaxHeight(f, co)
    [] f.pc = "timeExpired"    -> StepTimeExpired(f, co)
    [] f.pc = "underlying"     -> StepUnderlying(f, co)
    [] f.pc = "sign"           -> StepSign(f, co, key)
    [] f.pc = "checkFormat"    -> StepCheckFormat(f, co)
    [] f.pc = "checkMaxHeight" -> StepCheckMaxHeight(f, co)
    [] f.pc = "checkMaxWidth"  -> StepCheckMaxWidth(f, co)
    [] f.pc = "encode"         -> StepEncode(f, co)

\* A whole call on a client holding key: the pair (f, co) on return.
RECURSIVE Run(_, _, _)
Run(f, co, key) ==
  IF f.pc = "done" THEN [f |-> f, co |-> co]
  ELSE LET r == Step(f, co, key) IN Run(r.f, r.co, key)

\* c.FormatURL(urlstr, opts) for a client holding key: the frame on return.
Call(key, urlstr, arg) == Run(Entry("default", urlstr, arg), Pointee(arg), key).f

\* c.FormatURL(urlstr, opts) for a client holding key: [url, err].
FormatURL(key, urlstr, arg) ==
  [url |-> Call(key, urlstr, arg).url, err |-> Call(key, urlstr, arg).err]

(***************************************************************************)
(* The transport operations (src/ospry.go:162-272, 373-414).               *)
(*                                                                         *)
(* A reply is what the HTTP client gives back for a request: a failure to  *)
(* get a response, or a status code and a body.  A body is a JSON document *)
(* as a value, its text is not modelled:                                   *)
(*   [kind |-> "empty"]   no document (the decoder meets the end of input) *)
(*   [kind |-> "syntax"]  text that is not JSON                            *)
(*   [kind |-> "object", metadata |-> j, error |-> j]  a JSON object, each *)
(*     member j being <<"absent">>, <<"null">>, <<"string">> (a JSON       *)
(*     string, the wrong type for the member) or <<"object", v>> with v    *)
(*     the Metadata or Error the object decodes to.                        *)
(* A pointer is <<>> for nil and <<v>> for a pointer to v.  An error value *)
(* is a record: kind "nil" for nil, "Error" for a *Error (held in .error), *)
(* and "url", "http", "json" for the errors of net/url, net/http and       *)
(* encoding/json.                                                          *)
(***************************************************************************)

ZeroError == [HTTPStatusCode |-> 0, Cause |-> "", Message |-> ""]

NilErr == [kind |-> "nil", error |-> ZeroError, text |-> ""]

\* A *Error as an error value.
TypedErr(e) == [kind |-> "Error", error |-> e, text |-> "ospry: " \o e.Message]

LibErr(kind, text) == [kind |-> kind, error |-> ZeroError, text |-> text]

\* json.NewDecoder(body).Decode(&res) for the struct of lines 403-406: a nil
\* pointer for an absent or null member, an UnmarshalTypeError for a member
\* of the wrong type.  [res, err].
Decode(body) ==
  LET nothing == [Metadata |-> <<>>, Error |-> <<>>]
      member(j) == IF j[1] = "object" THEN <<j[2]>> ELSE <<>>
  IN  IF body.kind = "empty" THEN [res |-> nothing, err |-> LibErr("json", "EOF")]
      ELSE IF body.kind = "syntax"
      THEN [res |-> nothing, err |-> LibErr("json", "invalid character")]
      ELSE [res |-> [Metadata |-> member(body.metadata), Error |-> member(body.error)],
            err |-> IF body.metadata[1] = "string" \/ body.error[1] = "string"
                    THEN LibErr("json", "cannot unmarshal string into Go struct field")
                    ELSE NilErr]

\* parseMetadata with the metadata returned whenever the envelope has one.
\* (The variant C10 is checked against.)
parseMetadataLenient(body) ==
  IF Decode(body).err.kind # "nil" THEN [meta |-> <<>>, err |-> Decode(body).err]
  ELSE IF Decode(body).res.Metadata # <<>>
  THEN [meta |-> Decode(body).res.Metadata, err |-> NilErr]
  ELSE IF Decode(body).res.Error # <<>>
  THEN [meta |-> <<>>, err |-> TypedErr(Decode(body).res.Error[1])]
  ELSE [meta |-> <<>>, err |-> NilErr]

\* parseMetadata (src/ospry.go:402-414): [meta, err].
parseMetadata(body) ==
  IF Decode(body).err.kind # "nil" THEN [meta |-> <<>>, err |-> Decode(body).err]
  ELSE IF Decode(body).res.Error # <<>>
  THEN [meta |-> <<>>, err |-> TypedErr(Decode(body).res.Error[1])]
  ELSE [meta |-> Decode(body).res.Metadata, err |-> NilErr]

NoRequest == [method |-> "", url |-> "", user |-> "", contentType |-> "", body |-> ""]

\* Client.curl up to the call of Do (src/ospry.go:374-381): [req, err], req
\* the request built, with the key as the user of its basic authentication.
NewRequest(c, method, urlstr, contentType, body) ==
  IF ~Parse(urlstr).ok
  THEN [req |-> NoRequest, err |-> LibErr("url", "parse: invalid URL")]
  ELSE [req |-> [method |-> method, url |-> urlstr, user |-> c.Key,
                 contentType |-> contentType, body |-> body],
        err |-> NilErr]

\* c.HTTPClient.Do(req) (src/ospry.go:382) when the exchange gives reply:
\* [res, err], res a pointer to the response.
Do(req, reply) ==
  [res |-> IF reply.failed THEN <<>> ELSE <<reply>>,
   err |-> IF reply.failed THEN LibErr("http", "no response") ELSE NilErr]

\* An operation that returns err before a request is made.
NotSent(err) == [req |-> NoRequest, err |-> err]

\* strconv.FormatBool.
FormatBool(b) == IF b THEN "true" ELSE "false"

\* u, err := url.Parse(c.ServerURL); u.Path += path, for the parsed
\* ServerURL p: [ok, u].  The query and the fragment of ServerURL stay.
AddPath(p, path) == [p EXCEPT !.u.Path = @ \o path]

\* u.RawQuery = rawQuery.
SetRawQuery(p, rawQuery) == [p EXCEPT !.u.RawQuery = rawQuery]

\* The request c.curl(method, u.String(), contentType, body) makes for the
\* URL p.u, or the error of url.Parse.
serverRequest(c, p, method, contentType, body) ==
  IF ~p.ok THEN NotSent(LibErr("url", "parse: invalid URL"))
  ELSE NewRequest(c, method, URLString(p.u), contentType, body)

\* Each operation below is the operation up to the call of Do: [req, err],
\* the request it sends or the error it returns without sending one.  What
\* it returns once Do has returned is Response.

\* Client.uploadImage (src/ospry.go:176-195).
uploadImage(c, filename, isPrivate, data) ==
  serverRequest(c,
                SetRawQuery(AddPath(Parse(c.ServerURL), "/images"),
                            Encode(Add(Add(EmptyValues, "filename", filename),
                                       "isPrivate", FormatBool(isPrivate)))),
                "POST", "image/jpeg", data)

\* Client.UploadPublic (src/ospry.go:165-167).
UploadPublic(c, filename, data) == uploadImage(c, filename, FALSE, data)

\* Client.UploadPrivate (src/ospry.go:172-174).
UploadPrivate(c, filename, data) == uploadImage(c, filename, TRUE, data)

\* Client.GetMetadata (src/ospry.go:198-210).
GetMetadata(c, id) ==
  serverRequest(c, AddPath(Parse(c.ServerURL), "/images/" \o id), "GET", "application/json", "")

\* Client.patch (src/ospry.go:385-400): p is the text json.Marshal gives.
patch(c, id, p) ==
  serverRequest(c, AddPath(Parse(c.ServerURL), "/images/" \o id), "PUT", "application/json", p)

\* Client.Claim (src/ospry.go:234-238).
Claim(c, id) == patch(c, id, "{\"isClaimed\":true}")

\* Client.MakePrivate (src/ospry.go:243-247).
MakePrivate(c, id) == patch(c, id, "{\"isPrivate\":true}")

\* Client.MakePublic (src/ospry.go:251-255).
MakePublic(c, id) == patch(c, id, "{\"isPrivate\":false}")

\* Client.Delete (src/ospry.go:259-272).
Delete(c, id) ==
  serverRequest(c, AddPath(Parse(c.ServerURL), "/images/" \o id), "DELETE", "application/json", "")

\* Client.Download (src/ospry.go:214-228) from the return of the FormatURL
\* it calls up to the request of HTTPClient.Get: r is the [url, err] that
\* FormatURL returned.  Get builds its request from the URL text, and sets
\* no authentication.
Download(r) ==
  IF r.err # "" THEN NotSent(LibErr("FormatURL", r.err))
  ELSE IF ~Parse(r.url).ok THEN NotSent(LibErr("url", "parse: invalid URL"))
  ELSE [req |-> [NoRequest EXCEPT !.method = "GET", !.url = r.url], err |-> NilErr]

\* What the operation op returns, from the call of Do on, when its request
\* is sent (src/ospry.go:189-194, 204-209, 221-227, 265-271, 395-399):
\* [meta, err], meta being <<>> for nil.  Delete returns the error only;
\* Download returns res.Body, the body of the reply as it came and unread, in
\* place of a Metadata for the status 200, and nil with an error for another.
Response(op, sent, reply) ==
  IF sent.err.kind # "nil" THEN [meta |-> <<>>, err |-> sent.err]
  ELSE IF Do(sent.req, reply).err.kind # "nil"
  THEN [meta |-> <<>>, err |-> Do(sent.req, reply).err]
  ELSE IF op = "Download"
  THEN IF Do(sent.req, reply).res[1].status # 200
       THEN [meta |-> <<>>,
             err |-> LibErr("ospry", "ospry: download resulted in non-200 status")]
       ELSE [meta |-> <<Do(sent.req, reply).res[1].body>>, err |-> NilErr]
  ELSE IF op = "Delete"
  THEN [meta |-> <<>>, err |-> parseMetadata(Do(sent.req, reply).res[1].body).err]
  ELSE parseMetadata(Do(sent.req, reply).res[1].body)

(***************************************************************************)
(* The inputs                                                              *)
(***************************************************************************)

\* The dimensions a caller passes: -1, 0 and the first MaxDim multiples of 120.
MaxDim == 1

Dims == {0 - 1, 0} \cup {120 * k : k \in 1..MaxDim}

K1 == "sk-test-1"

K2 == "sk-test-2"

Keys == {K1, K2}

Img == "http://foo.ospry.io/bar/baz.png"

Api == "https://api.ospry.io/"

T1 == [year |-> 2030, month |-> 1, day |-> 2, hour |-> 3, min |-> 4, sec |-> 5, nsec |-> 0, off |-> 0]

T2 == [year |-> 2031, month |-> 12, day |-> 31, hour |-> 23, min |-> 59, sec |-> 59,
       nsec |-> 120000000, off |-> 0 - 19800]

Times == {ZeroTime, T1, T2}

\* The url and timeExpired parameters of a signed URL of Img, as the
\* repository's tests build them (src/ospry_test.go:217).
SignedPrefix ==
  Api \o "?url=" \o QueryEscape(Img) \o "&timeExpired=" \o QueryEscape("2029-06-01T12:00:00Z")

URLs ==
  { Img,
    Img \o "?format=jpeg&maxHeight=200&maxWidth=200",
    Img \o "?format=gif",
    Img \o "?format=bmp",
    Img \o "?foo=bar",
    Img \o "?maxHeight=0&maxWidth=007",
    Img \o "?maxHeight=abc",
    Img \o "?maxHeight=-1",
    Img \o "?maxHeight=&maxHeight=5",
    Img \o "?maxHeight=5&maxHeight=abc",
    Img \o "?maxWidth=1.5",
    Img \o "?maxWidth=-20",
    Img \o "?timeExpired=2029-06-01T12%3A00%3A00.500%2B00%3A00",
    Img \o "?timeExpired=tomorrow",
    Img \o "?timeExpired=0001-01-01T00%3A00%3A00Z",
    Img \o "?",
    Img \o "#top",
    "HTTP://foo.ospry.io/a%20b c.png?maxWidth=+20",
    Img \o "?maxWidth=%2B20",
    "foo.ospry.io/bar/baz.png?format=png",
    "data:image/png;base64,iVBORw0KGgo=",
    "://foo.ospry.io/bar/baz.png",
    "http://foo.ospry.io:8o/bar/baz.png",
    "http://user@foo.ospry.io/bar/baz.png?maxWidth=1",
    "http://[::1]:8080/bar/baz.png",
    Img \o "?timeExpired=2030-01-02T3%3A04%3A05%2C5%2B24%3A00",
    SignedPrefix \o "&signature=b2xkIHNpZ25hdHVyZQ%3D%3D",
    SignedPrefix \o "&signature=b2xkIHNpZ25hdHVyZQ%3D%3D&format=gif&maxHeight=300&maxWidth=200",
    Api \o "?url=" \o QueryEscape(Img \o "?v=2") \o "&signature=b2xkIHNpZ25hdHVyZQ%3D%3D",
    Api \o "?url=%3A%2F%2Ffoo.ospry.io&maxHeight=20" }

\* The RenderOpts values a caller passes.
Opts ==
  [Format : {"", "gif", "bmp"}, MaxHeight : Dims, MaxWidth : Dims, TimeExpired : Times]

\* The image ids and the file names the operations are called with.
Ids == {"img-1", "img 2"}

Filenames == {"foo.jpg", "a b&c.png"}

\* The image data uploaded.
Data == "JFIF"

M1 ==
  [ID |-> "img-1", URL |-> Img, HTTPSURL |-> "https://foo.ospry.io/bar/baz.png",
   TimeCreated |-> T1, IsClaimed |-> TRUE, IsPrivate |-> FALSE, Filename |-> "foo.jpg",
   Format |-> "png", Size |-> 2048, Height |-> 120, Width |-> 354]

E1 == [HTTPStatusCode |-> 404, Cause |-> "not-found", Message |-> "image not found"]

Statuses == {200, 404, 500}

Bodies ==
  {[kind |-> "empty"], [kind |-> "syntax"]}
  \cup [kind : {"object"},
        metadata : {<<"absent">>, <<"null">>, <<"string">>, <<"object", M1>>},
        error : {<<"absent">>, <<"null">>, <<"string">>, <<"object", E1>>}]

NoReply == [failed |-> TRUE, status |-> 0, body |-> [kind |-> "empty"]]

\* What the HTTP client may give back.
Replies == {NoReply} \cup [failed : {FALSE}, status : Statuses, body : Bodies]

\* The opts arguments: nil, or a pointer to an instance holding o.
OptsArgs == {<<>>} \cup {<<o>> : o \in Opts}

\* The urls and the opts arguments Download is called with.
DownloadURLs ==
  { Img,
    Img \o "?maxHeight=abc",
    SignedPrefix \o "&signature=b2xkIHNpZ25hdHVyZQ%3D%3D",
    "://foo.ospry.io/bar/baz.png" }

DownloadOpts ==
  {<<>>, <<[ZeroOpts EXCEPT !.MaxWidth = 120]>>, <<[ZeroOpts EXCEPT !.TimeExpired = T1]>>}

(***************************************************************************)
(* The state                                                               *)
(***************************************************************************)

VARIABLES
  clients,     \* the clients: "default" is DefaultClient, "c" one made by New
  callerOpts,  \* the RenderOpts instance the caller of FormatURL passed
  call,        \* the frame of the running FormatURL call
  rpc,         \* the transport operation last called, and what it returned
  setKey,      \* the frame of a SetKey call running beside the other calls
  entryKey,    \* the key the receiver of the running FormatURL held at its entry
  metadatas,   \* the demo server's list of the images it knows
  lock,        \* the demo server's lock on metadatas
  del          \* the frame of the demo server's running DeleteImages

\* The state of the demo server (src/unnamed/part_000).
demoVars == <<metadatas, lock, del>>

vars == <<clients, callerOpts, call, rpc, setKey, entryKey, demoVars>>

\* del.pc is "idle" (no DeleteImages runs), "loop" (it stands at the head of
\* its loop, before element i of its copy m of the list), "deleteMetadata"
\* (ospry.Delete returned nil, deleteMetadata is not yet called) or
\* "deleted" (deleteMetadata stands at its return, the lock still held).
IdleDel == [pc |-> "idle", m |-> <<>>, i |-> 0]

\* setKey.pc is "idle" (no such call) or "write" (the call stands at the
\* store of line 97, which has not completed); setKey.key is its argument.
IdleSetKey == [pc |-> "idle", key |-> ""]

\* rpc.pc is "idle", "formatting" (a Download is in the FormatURL it calls),
\* "sent" (the operation is in Do) or "done" (it returned meta and err);
\* rpc.reply is what Do gave back; rpc.urlstr and rpc.arg are the url and
\* opts arguments of a Download.
IdleRpc ==
  [pc |-> "idle", op |-> "", recv |-> "default", urlstr |-> "", arg |-> <<>>,
   req |-> NoRequest, reply |-> NoReply, meta |-> <<>>, err |-> NilErr]

Init ==
  /\ clients = [default |-> New(""), c |-> New(K1)]
  /\ callerOpts = ZeroOpts
  /\ call = IdleFrame
  /\ rpc = IdleRpc
  /\ setKey = IdleSetKey
  /\ entryKey = ""
  /\ metadatas = <<>>
  /\ lock = "free"
  /\ del = IdleDel

\* No call is running.
Idle == call.pc = "idle" /\ rpc.pc = "idle"

\* SetKey (src/ospry.go:96-98).
SetKey ==
  /\ Idle
  /\ \E key \in Keys : clients' = [clients EXCEPT !["default"].Key = key]
  /\ UNCHANGED <<callerOpts, call, rpc, setKey, entryKey, demoVars>>

\* A call of FormatURL on the client recv: p is the opts argument, <<>> for
\* nil and <<o>> for a pointer to an instance holding o.
Enter(recv, urlstr, p) ==
  /\ call' = Entry(recv, urlstr, p)
  /\ callerOpts' = Pointee(p)
  /\ entryKey' = clients[recv].Key
  /\ UNCHANGED <<clients, rpc, setKey, demoVars>>

\* Client.FormatURL (src/ospry.go:279).
ClientFormatURL ==
  /\ Idle
  /\ \E recv \in DOMAIN clients, urlstr \in URLs, p \in OptsArgs : Enter(recv, urlstr, p)

\* FormatURL (src/ospry.go:141-143): the default client's.
PkgFormatURL ==
  /\ Idle
  /\ \E urlstr \in URLs, p \in OptsArgs : Enter("default", urlstr, p)

\* One step of the running call: r is the pair (f, co) after the step at pc.
Advance(pc, r) ==
  /\ call.pc = pc
  /\ call' = r.f
  /\ callerOpts' = r.co
  /\ UNCHANGED <<clients, rpc, setKey, entryKey, demoVars>>

\* The call has returned to a caller outside the library, which drops its
\* RenderOpts instance.
Return ==
  /\ call.pc = "done"
  /\ rpc.pc = "idle"
  /\ call' = IdleFrame
  /\ callerOpts' = ZeroOpts
  /\ entryKey' = ""
  /\ UNCHANGED <<clients, rpc, setKey, demoVars>>

\* The operation op is called on the client recv and runs up to its request
\* (sent holds the request, or the error it returns without sending one).
Send(op, recv, sent) ==
  /\ rpc' = [IdleRpc EXCEPT !.pc = IF sent.err.kind = "nil" THEN "sent" ELSE "done",
                            !.op = op, !.recv = recv, !.req = sent.req, !.err = sent.err]
  /\ UNCHANGED <<clients, callerOpts, call, setKey, entryKey, demoVars>>

\* The transport operations, on either client: the package-level functions
\* (src/ospry.go:100-138) are the methods of the default client.
CallUploadPublic ==
  /\ Idle
  /\ \E recv \in DOMAIN clients, filename \in Filenames :
       Send("UploadPublic", recv, UploadPublic(clients[recv], filename, Data))

CallUploadPrivate ==
  /\ Idle
  /\ \E recv \in DOMAIN clients, filename \in Filenames :
       Send("UploadPrivate", recv, UploadPrivate(clients[recv], filename, Data))

CallGetMetadata ==
  /\ Idle
  /\ \E recv \in DOMAIN clients, id \in Ids :
       Send("GetMetadata", recv, GetMetadata(clients[recv], id))

CallClaim ==
  /\ Idle
  /\ \E recv \in DOMAIN clients, id \in Ids :
       Send("Claim", recv, Claim(clients[recv], id))

CallMakePrivate ==
  /\ Idle
  /\ \E recv \in DOMAIN clients, id \in Ids :
       Send("MakePrivate", recv, MakePrivate(clients[recv], id))

CallMakePublic ==
  /\ Idle
  /\ \E recv \in DOMAIN clients, id \in Ids :
       Send("MakePublic", recv, MakePublic(clients[recv], id))

CallDelete ==
  /\ Idle
  /\ \E recv \in DOMAIN clients, id \in Ids :
       Send("Delete", recv, Delete(clients[recv], id))

\* Client.Download (src/ospry.go:214-216) on the client recv: it calls the
\* package-level FormatURL, the default client's.
CallDownload ==
  /\ Idle
  /\ \E recv \in DOMAIN clients, urlstr \in DownloadURLs, p \in DownloadOpts :
       /\ call' = Entry("default", urlstr, p)
       /\ callerOpts' = Pointee(p)
       /\ rpc' = [IdleRpc EXCEPT !.pc = "formatting", !.op = "Download", !.recv = recv,
                                 !.urlstr = urlstr, !.arg = p]
       /\ entryKey' = clients["default"].Key
  /\ UNCHANGED <<clients, setKey, demoVars>>

\* FormatURL has returned to Download (src/ospry.go:217-220), which returns
\* its error or requests the URL it got.
DownloadGet ==
  /\ rpc.pc = "formatting"
  /\ call.pc = "done"
  /\ rpc' = [rpc EXCEPT !.pc = IF call.err = "" /\ Parse(call.url).ok THEN "sent" ELSE "done",
                        !.req = Download(call).req, !.err = Download(call).err]
  /\ call' = IdleFrame
  /\ callerOpts' = ZeroOpts
  /\ entryKey' = ""
  /\ UNCHANGED <<clients, setKey, demoVars>>

\* Do gives back reply, and the operation returns.
Reply ==
  /\ rpc.pc = "sent"
  /\ \E reply \in Replies :
       rpc' = [rpc EXCEPT !.pc = "done", !.reply = reply,
                          !.meta = Response(rpc.op, rpc, reply).meta,
                          !.err = Response(rpc.op, rpc, reply).err]
  /\ UNCHANGED <<clients, callerOpts, call, setKey, entryKey, demoVars>>

\* The caller is done with what the operation returned.
Forget ==
  /\ rpc.pc = "done"
  /\ rpc' = IdleRpc
  /\ UNCHANGED <<clients, callerOpts, call, setKey, entryKey, demoVars>>

Next ==
  \/ SetKey
  \/ PkgFormatURL
  \/ ClientFormatURL
  \/ Advance("copy", StepCopy(call, callerOpts))
  \/ Advance("parse", StepParse(call, callerOpts))
  \/ Advance("format", StepFormat(call, callerOpts))
  \/ Advance("maxWidth", StepMaxWidth(call, callerOpts))
  \/ Advance("maxHeight", StepMaxHeight(call, callerOpts))
  \/ Advance("timeExpired", StepTimeExpired(call, callerOpts))
  \/ Advance("underlying", StepUnderlying(call, callerOpts))
  \/ Advance("sign", StepSign(call, callerOpts, clients[call.recv].Key))
  \/ Advance("checkFormat", StepCheckFormat(call, callerOpts))
  \/ Advance("checkMaxHeight", StepCheckMaxHeight(call, callerOpts))
  \/ Advance("checkMaxWidth", StepCheckMaxWidth(call, callerOpts))
  \/ Advance("encode", StepEncode(call, callerOpts))
  \/ Return
  \/ CallUploadPublic
  \/ CallUploadPrivate
  \/ CallGetMetadata
  \/ CallClaim
  \/ CallMakePrivate
  \/ CallMakePublic
  \/ CallDelete
  \/ CallDownload
  \/ DownloadGet
  \/ Reply
  \/ Forget

Spec == Init /\ [][Next]_vars

(***************************************************************************)
(* Calls of FormatURL whose results are fed back to it: beside times that  *)
(* RFC3339 writes and reads back, a time whose year takes five digits and  *)
(* a time in a zone of thirty seconds, and beside a plain URL one that     *)
(* ends in "?" and one that is already signed.                             *)
(***************************************************************************)

T3 == [T1 EXCEPT !.year = 10000]

T4 == [T1 EXCEPT !.off = 30]

RoundTripURLs == {Img, Img \o "?", SignedPrefix \o "&signature=b2xkIHNpZ25hdHVyZQ%3D%3D"}

RoundTripOpts ==
  {<<>>, <<[ZeroOpts EXCEPT !.MaxWidth = 120]>>}
  \cup {<<[ZeroOpts EXCEPT !.TimeExpired = t]>> : t \in {T1, T2, T3, T4}}

\* FormatURL, the package-level function or the method, is called.
RoundTripFormatURL ==
  /\ Idle
  /\ \E recv \in DOMAIN clients, urlstr \in RoundTripURLs, p \in RoundTripOpts :
       Enter(recv, urlstr, p)

RoundTripNext ==
  \/ RoundTripFormatURL
  \/ Advance("copy", StepCopy(call, callerOpts))
  \/ Advance("parse", StepParse(call, callerOpts))
  \/ Advance("format", StepFormat(call, callerOpts))
  \/ Advance("maxWidth", StepMaxWidth(call, callerOpts))
  \/ Advance("maxHeight", StepMaxHeight(call, callerOpts))
  \/ Advance("timeExpired", StepTimeExpired(call, callerOpts))
  \/ Advance("underlying", StepUnderlying(call, callerOpts))
  \/ Advance("sign", StepSign(call, callerOpts, clients[call.recv].Key))
  \/ Advance("checkFormat", StepCheckFormat(call, callerOpts))
  \/ Advance("checkMaxHeight", StepCheckMaxHeight(call, callerOpts))
  \/ Advance("checkMaxWidth", StepCheckMaxWidth(call, callerOpts))
  \/ Advance("encode", StepEncode(call, callerOpts))
  \/ Return

RoundTripSpec == Init /\ [][RoundTripNext]_vars

(***************************************************************************)
(* Calls of SetKey beside a call of FormatURL.  SetKey stores a string, a  *)
(* pointer and a length, in DefaultClient.Key with no synchronisation      *)
(* (src/ospry.go:96-98), and FormatURL loads c.Key with none (line 334): a *)
(* load of the default client's key while the store is under way is a data *)
(* race, and gives any value the two words of the old and the new string   *)
(* can make.  A call of FormatURL that faults stays where it is: it does   *)
(* not return.                                                             *)
(***************************************************************************)

\* The urls and opts arguments of the calls of FormatURL beside a SetKey.
RaceURLs == {Img, SignedPrefix \o "&signature=b2xkIHNpZ25hdHVyZQ%3D%3D"}

RaceOpts == {<<>>, <<[ZeroOpts EXCEPT !.TimeExpired = T1]>>}

\* What a load of a string may give while old is being overwritten by new:
\* the pointer of either with the length of either, [ptr, len] with ptr the
\* bytes pointed to.
RacyRead(old, new) == [ptr : {old, new}, len : {Len(old), Len(new)}]

\* What the load of c.Key at line 334 may give for the client recv.
KeyRead(recv) ==
  IF recv = "default" /\ setKey.pc = "write"
  THEN RacyRead(clients["default"].Key, setKey.key)
  ELSE {[ptr |-> clients[recv].Key, len |-> Len(clients[recv].Key)]}

\* The byte taken here for each byte of memory past the end of a string:
\* what lies there is none of the key's.
StrayByte == "~"

\* n bytes past the end of a string.
Stray(n) == ConcatRange([i \in 1..n |-> StrayByte], 1, n)

\* []byte(c.Key) (line 334) for the loaded string h, the len bytes from ptr
\* on: [fault, key].  A length within the bytes pointed to gives their
\* prefix.  A longer one reads past them: the copy faults (the pointer of ""
\* may be nil, and the memory past a string unmapped), or takes the bytes
\* that lie there.
KeyBytes(h) ==
  IF h.len <= Len(h.ptr) THEN {[fault |-> FALSE, key |-> SubSeq(h.ptr, 1, h.len)]}
  ELSE {[fault |-> TRUE, key |-> ""],
        [fault |-> FALSE, key |-> h.ptr \o Stray(h.len - Len(h.ptr))]}

\* The call ends in a fault, and returns nothing.
Fault(f, co) == [f |-> [f EXCEPT !.pc = "fault"], co |-> co]

\* Lines 330-342 with the key bytes k: the key is copied in the signed
\* branch only.
StepSignWith(f, co, k) ==
  IF k.fault /\ ~IsZero(Deref(f, co).TimeExpired) THEN Fault(f, co)
  ELSE StepSign(f, co, k.key)

\* FormatURL, the package-level function or the method, is called.
RaceFormatURL ==
  /\ Idle
  /\ \E recv \in DOMAIN clients, urlstr \in RaceURLs, p \in RaceOpts : Enter(recv, urlstr, p)

\* SetKey(key) is called, and reaches its store (src/ospry.go:97).
SetKeyBegin ==
  /\ setKey.pc = "idle"
  /\ \E key \in Keys : setKey' = [pc |-> "write", key |-> key]
  /\ UNCHANGED <<clients, callerOpts, call, rpc, entryKey, demoVars>>

\* The store of SetKey completes, and SetKey returns.
SetKeyEnd ==
  /\ setKey.pc = "write"
  /\ clients' = [clients EXCEPT !["default"].Key = setKey.key]
  /\ setKey' = IdleSetKey
  /\ UNCHANGED <<callerOpts, call, rpc, entryKey, demoVars>>

\* Lines 330-342, with the load of c.Key beside a SetKey.
RaceSign ==
  /\ call.pc = "sign"
  /\ \E h \in KeyRead(call.recv) :
       \E k \in KeyBytes(h) : Advance("sign", StepSignWith(call, callerOpts, k))

RaceNext ==
  \/ RaceFormatURL
  \/ SetKeyBegin
  \/ SetKeyEnd
  \/ Advance("copy", StepCopy(call, callerOpts))
  \/ Advance("parse", StepParse(call, callerOpts))
  \/ Advance("format", StepFormat(call, callerOpts))
  \/ Advance("maxWidth", StepMaxWidth(call, callerOpts))
  \/ Advance("maxHeight", StepMaxHeight(call, callerOpts))
  \/ Advance("timeExpired", StepTimeExpired(call, callerOpts))
  \/ Advance("underlying", StepUnderlying(call, callerOpts))
  \/ RaceSign
  \/ Advance("checkFormat", StepCheckFormat(call, callerOpts))
  \/ Advance("checkMaxHeight", StepCheckMaxHeight(call, callerOpts))
  \/ Advance("checkMaxWidth", StepCheckMaxWidth(call, callerOpts))
  \/ Advance("encode", StepEncode(call, callerOpts))
  \/ Return

RaceSpec == Init /\ [][RaceNext]_vars

(***************************************************************************)
(* The demo server's store (src/unnamed/part_000:298-338) and the handlers *)
(* that use it.  metadatas is the container/list of *ospry.Metadata as a   *)
(* sequence of pointers, <<>> for nil and <<id>> for a pointer to a        *)
(* Metadata whose ID is id; an element is its index, 0 for nil.  What the  *)
(* remote API answers is the environment's choice.                         *)
(***************************************************************************)

\* The most entries the list holds.
MaxStore == 3

\* The image ids the remote API knows.
DemoIds == {"img-1", "img-2"}

\* The library's state, which the demo server's handlers leave alone here.
libVars == <<clients, callerOpts, call, rpc, setKey, entryKey>>

\* Element.Next of container/list for the element e of l: nil at the end of
\* the list, and nil for an element that Remove has taken out of its list.
ElemNext(l, e, removed) == IF removed \/ e >= Len(l) THEN 0 ELSE e + 1

\* List.Remove of the element e.
Remove(l, e) == SubSeq(l, 1, e - 1) \o SubSeq(l, e + 1, Len(l))

\* List.Front.
Front(l) == IF l = <<>> THEN 0 ELSE 1

\* The loop of deleteMetadata (src/unnamed/part_000:311-315) from the
\* element e on: [list, panicked], panicked when e.Value is a nil pointer.
RECURSIVE deleteLoop(_, _, _)
deleteLoop(l, e, id) ==
  IF e = 0 THEN [list |-> l, panicked |-> FALSE]
  ELSE IF l[e] = <<>> THEN [list |-> l, panicked |-> TRUE]
  ELSE IF l[e][1] = id THEN deleteLoop(Remove(l, e), ElemNext(l, e, TRUE), id)
  ELSE deleteLoop(l, ElemNext(l, e, FALSE), id)

\* deleteMetadata (src/unnamed/part_000:308-316) on the list l for a
\* Metadata whose ID is id.
deleteMetadata(l, id) == deleteLoop(l, Front(l), id)

\* saveMetadata (src/unnamed/part_000:302-306).
saveMetadata(l, m) == Append(l, m)

\* getMetadatas (src/unnamed/part_000:318-338) panics on a nil entry, and
\* else returns copies of the entries: here their IDs.
getMetadatasPanics(l) == \E e \in 1..Len(l) : l[e] = <<>>

getMetadatas(l) == [e \in 1..Len(l) |-> l[e][1]]

\* The ids of the entries of l.
StoredIds(l) == {l[e][1] : e \in {x \in 1..Len(l) : l[x] # <<>>}}

\* PostClaim (src/unnamed/part_000:264-275): ospry.Claim returned m and a
\* nil error for the id of the request, and m is saved.
PostClaim ==
  /\ lock = "free"
  /\ Len(metadatas) < MaxStore
  /\ \E m \in {<<>>} \cup {<<id>> : id \in DemoIds} : metadatas' = saveMetadata(metadatas, m)
  /\ UNCHANGED <<libVars, lock, del>>

\* PostImages (src/unnamed/part_000:198-228) for one file:
\* ospry.UploadPrivate returned m, with an id the store does not hold, and
\* a nil error, and m is saved.
PostImages ==
  /\ lock = "free"
  /\ Len(metadatas) < MaxStore
  /\ \E m \in {<<>>} \cup {<<id>> : id \in DemoIds \ StoredIds(metadatas)} :
       metadatas' = saveMetadata(metadatas, m)
  /\ UNCHANGED <<libVars, lock, del>>

\* PostMakePrivate (src/unnamed/part_000:242-251): the store is read only.
PostMakePrivate ==
  /\ lock = "free"
  /\ ~getMetadatasPanics(metadatas)
  /\ UNCHANGED vars

\* PostMakePublic (src/unnamed/part_000:253-262): the store is read only.
PostMakePublic ==
  /\ lock = "free"
  /\ ~getMetadatasPanics(metadatas)
  /\ UNCHANGED vars

\* DeleteImages (src/unnamed/part_000:230-231) takes its copy of the list.
DeleteImagesBegin ==
  /\ del.pc = "idle"
  /\ lock = "free"
  /\ ~getMetadatasPanics(metadatas)
  /\ del' = [pc |-> "loop", m |-> getMetadatas(metadatas), i |-> 1]
  /\ UNCHANGED <<libVars, metadatas, lock>>

\* Lines 232-236: ospry.Delete(v.ID) returns nil, or an error that ends the
\* handler.
DeleteImagesRemote ==
  /\ del.pc = "loop"
  /\ del.i <= Len(del.m)
  /\ \E failed \in BOOLEAN :
       del' = IF failed THEN IdleDel ELSE [del EXCEPT !.pc = "deleteMetadata"]
  /\ UNCHANGED <<libVars, metadatas, lock>>

\* Line 237: deleteMetadata(v) takes the lock and runs its loop; a panic
\* releases the lock and ends the handler.
DeleteImagesDeleteMetadata ==
  /\ del.pc = "deleteMetadata"
  /\ lock = "free"
  /\ metadatas' = deleteMetadata(metadatas, del.m[del.i]).list
  /\ lock' = IF deleteMetadata(metadatas, del.m[del.i]).panicked THEN "free" ELSE "held"
  /\ del' = IF deleteMetadata(metadatas, del.m[del.i]).panicked THEN IdleDel
            ELSE [del EXCEPT !.pc = "deleted"]
  /\ UNCHANGED libVars

\* deleteMetadata returns, its deferred Unlock run, to the next element.
DeleteImagesNext ==
  /\ del.pc = "deleted"
  /\ lock' = "free"
  /\ del' = [del EXCEPT !.pc = "loop", !.i = @ + 1]
  /\ UNCHANGED <<libVars, metadatas>>

\* Line 239: the loop is over.
DeleteImagesEnd ==
  /\ del.pc = "loop"
  /\ del.i > Len(del.m)
  /\ del' = IdleDel
  /\ UNCHANGED <<libVars, metadatas, lock>>

DemoNext ==
  \/ PostClaim
  \/ PostImages
  \/ PostMakePrivate
  \/ PostMakePublic
  \/ DeleteImagesBegin
  \/ DeleteImagesRemote
  \/ DeleteImagesDeleteMetadata
  \/ DeleteImagesNext
  \/ DeleteImagesEnd

DemoSpec == Init /\ [][DemoNext]_vars

(***************************************************************************)
(* The properties                                                          *)
(*                                                                         *)
(* They are stated on the call that has returned (call.pc = "done"): its   *)
(* input call.urlstr, the options the caller passed (Given), the receiver's *)
(* key (Key) and what it returned, call.url and call.err.  The effective   *)
(* value of an option is defined here from the input alone, by the rule    *)
(* the specification gives, and not read from the frame.                   *)
(***************************************************************************)

Given == Pointee(call.arg)

Key == clients[call.recv].Key

Returned == call.pc = "done"

Succeeded == call.pc = "done" /\ call.err = ""

\* The call returned an error and the empty string.
Refused == call.err # "" /\ call.url = ""

\* The query of a parsed text p (empty when the text does not parse).
QueryOf(p) == IF p.ok THEN Query(p.u) ELSE EmptyValues

\* The query of the input, and the query of the result.
InQuery == QueryOf(Parse(call.urlstr))

OutQuery == QueryOf(Parse(call.url))

\* The number, or the time, a query value stands for; unset when it is empty
\* or stands for none.
IntOf(v) == IF v # "" /\ ParseInt(v).ok THEN ParseInt(v).val ELSE 0

TimeOf(v) == IF v # "" /\ TimeParse(v).ok THEN TimeParse(v).t ELSE ZeroTime

\* The effective options for the caller's options o and the input's query q:
\* field by field the caller's value when set, the query's otherwise.
Eff(o, q) ==
  [Format      |-> IF o.Format # "" THEN o.Format ELSE Get(q, "format"),
   MaxHeight   |-> IF o.MaxHeight # 0 THEN o.MaxHeight ELSE IntOf(Get(q, "maxHeight")),
   MaxWidth    |-> IF o.MaxWidth # 0 THEN o.MaxWidth ELSE IntOf(Get(q, "maxWidth")),
   TimeExpired |-> IF ~IsZero(o.TimeExpired) THEN o.TimeExpired
                   ELSE TimeOf(Get(q, "timeExpired"))]

Effective == Eff(Given, InQuery)

\* The underlying image URL: the input's url parameter when it has one, the
\* input without its query otherwise.
Underlying ==
  IF Get(InQuery, "url") # "" THEN Get(InQuery, "url")
  ELSE URLString([Parse(call.urlstr).u EXCEPT !.RawQuery = ""])

\* A query value that is not empty and does not parse.
BadInt(v) == v # "" /\ ~ParseInt(v).ok

BadTime(v) == v # "" /\ ~TimeParse(v).ok

\* A value the call reads from the query q, the caller's options being o,
\* does not parse.
BadValue(o, q) ==
  \/ o.MaxWidth = 0 /\ BadInt(Get(q, "maxWidth"))
  \/ o.MaxHeight = 0 /\ BadInt(Get(q, "maxHeight"))
  \/ IsZero(o.TimeExpired) /\ BadTime(Get(q, "timeExpired"))

\* Some parse of the call fails.
ParseFails ==
  \/ ~Parse(call.urlstr).ok
  \/ BadValue(Given, InQuery)
  \/ Get(InQuery, "url") # "" /\ ~Parse(Get(InQuery, "url")).ok

\* An effective value of e is not valid.
Invalid(e) ==
  \/ e.MaxHeight < 0
  \/ e.MaxWidth < 0
  \/ e.Format # "" /\ e.Format \notin {"jpeg", "png", "gif"}

\* The values of key in the query m.
ValuesOf(m, key) == IF key \in DOMAIN m THEN {m[key][i] : i \in 1..Len(m[key])} ELSE {}

----------------------------------------------------------------------------

\* C1: when neither the caller nor the input's query gives an expiration, a
\* successful result carries no query key other than format, maxHeight and
\* maxWidth: the query of the input is discarded.
UnsignedQueryDiscarded ==
  (Succeeded /\ IsZero(Given.TimeExpired) /\ Get(InQuery, "timeExpired") = "")
    => DOMAIN OutQuery \subseteq {"format", "maxHeight", "maxWidth"}

\* C2: for each field the effective value the call works with is the
\* caller's when set, otherwise the input's when present; the result carries
\* the effective values; nil behaves as the zero RenderOpts.
CallerPrecedence ==
  /\ (call.pc = "underlying" \/ Succeeded) => Deref(call, callerOpts) = Effective
  /\ Succeeded
       => LET e == Effective
              out == OutQuery
          IN  /\ Get(out, "format") = e.Format
              /\ IntOf(Get(out, "maxHeight")) = e.MaxHeight
              /\ IntOf(Get(out, "maxWidth")) = e.MaxWidth
              /\ TimeOf(Get(out, "timeExpired")) = e.TimeExpired
              /\ e.MaxHeight > 0 => Get(out, "maxHeight") = FormatInt(e.MaxHeight)
              /\ e.MaxWidth > 0 => Get(out, "maxWidth") = FormatInt(e.MaxWidth)
  /\ (Returned /\ call.arg = <<>>)
       => FormatURL(Key, call.urlstr, <<ZeroOpts>>) = [url |-> call.url, err |-> call.err]

\* C2's case: the caller's MaxHeight 120 wins over the URL's maxHeight=200,
\* and the URL's format and maxWidth fill the fields the caller left unset.
CallerPrecedenceWitness ==
  /\ Succeeded
  /\ call.urlstr = Img \o "?format=jpeg&maxHeight=200&maxWidth=200"
  /\ Given = [ZeroOpts EXCEPT !.MaxHeight = 120]
  /\ call.url = Img \o "?format=jpeg&maxHeight=120&maxWidth=200"

\* C3: a successful result with an effective expiration has scheme https and
\* host api.ospry.io, the underlying URL as its url parameter, the expiration
\* in RFC3339Nano as its timeExpired parameter, and as its signature that of
\* "<url>?timeExpired=<escaped timeExpired>" under the receiver's key.
SignedResult ==
  (Succeeded /\ ~IsZero(Effective.TimeExpired))
    => LET out == OutQuery
       IN  /\ Parse(call.url).u.Scheme = "https"
           /\ Parse(call.url).u.Host = "api.ospry.io"
           /\ Get(out, "url") = Underlying
           /\ Get(out, "timeExpired") = TimeFormat(Effective.TimeExpired)
           /\ Get(out, "signature")
                = Signature(Key, Payload(Get(out, "url"), Get(out, "timeExpired")))

\* C4: a result fed back with nil options is accepted, and gives the same
\* result, the same effective format, maxHeight, maxWidth and expiration, and
\* the same underlying image URL (imgURL of lines 318-328) as the call that
\* made it.
RoundTrip ==
  Succeeded
    => LET again == Call(Key, call.url, <<>>)
       IN  /\ again.err = ""
           /\ again.url = call.url
           /\ again.copy = Deref(call, callerOpts)
           /\ again.imgURL = call.imgURL

\* C5: the call is refused (error, empty string) when an effective dimension
\* is negative or the effective format is not one of Formats, and it returns
\* a URL and no error when every parse succeeds and the effective values are
\* valid.
ValidationErrors ==
  Returned
    => LET bad == Invalid(Effective)
       IN  /\ bad => Refused
           /\ (~bad /\ ~ParseFails) => (call.err = "" /\ call.url # "")
           /\ call.err # "" => call.url = ""

\* C5's case: a negative maxHeight filled in from the URL, with an
\* expiration set, is refused.
ValidationErrorsWitness ==
  /\ Returned
  /\ call.urlstr = Img \o "?maxHeight=-1"
  /\ Given = [ZeroOpts EXCEPT !.TimeExpired = T1]
  /\ call.err = "ospry: MaxHeight can't be negative"
  /\ call.url = ""

\* C6: when the validation of format, maxHeight or maxWidth fails, no HMAC
\* has been computed in the call.
ValidationBeforeCrypto ==
  (Returned /\ HasPrefix(call.err, "ospry: ")) => call.hmacs = 0

\* C7: while the call runs and once it has returned, the caller's instance
\* holds what it held when the call was made.
CallerOptsUnchanged ==
  call.pc # "idle" => callerOpts = Given

\* C7's case: values of the URL were merged into the effective options, and
\* the caller's instance is as passed.
CallerOptsUnchangedWitness ==
  /\ Returned
  /\ call.arg = <<[ZeroOpts EXCEPT !.MaxHeight = 120]>>
  /\ call.urlstr = Img \o "?format=jpeg&maxHeight=200&maxWidth=200"
  /\ call.copy = [ZeroOpts EXCEPT !.Format = "jpeg", !.MaxHeight = 120, !.MaxWidth = 200]
  /\ callerOpts = [ZeroOpts EXCEPT !.MaxHeight = 120]

\* The input of the call is malformed: it does not parse, or its query has a
\* maxWidth or maxHeight value that is no base-10 integer, or a timeExpired
\* value that is no RFC3339Nano timestamp.
MalformedInput ==
  \/ ~Parse(call.urlstr).ok
  \/ \E v \in ValuesOf(InQuery, "maxWidth") \cup ValuesOf(InQuery, "maxHeight") : BadInt(v)
  \/ \E v \in ValuesOf(InQuery, "timeExpired") : BadTime(v)

\* C8 as stated: whatever the caller's options, a malformed input is refused.
MalformedAlwaysRefused ==
  (Returned /\ MalformedInput) => Refused

\* C8, amended: the input is refused when it does not parse, or when the
\* first value of maxWidth, maxHeight or timeExpired in its query is not
\* empty, does not parse, and the caller left that field unset.
MalformedUnsetRefused ==
  (Returned /\ (~Parse(call.urlstr).ok \/ BadValue(Given, InQuery))) => Refused

\* C8's case: maxWidth=1.5 in the URL, MaxWidth unset by the caller.
MalformedUnsetRefusedWitness ==
  /\ Returned
  /\ call.urlstr = Img \o "?maxWidth=1.5"
  /\ Given = [ZeroOpts EXCEPT !.Format = "gif"]
  /\ call.err = "strconv.ParseInt: invalid maxWidth"
  /\ call.url = ""

\* C9: a successful result has the key format exactly when the effective
\* format is set, maxHeight and maxWidth exactly when the effective value is
\* greater than 0, and, when signed, no key besides these and signature,
\* timeExpired and url.
OmissionRule ==
  Succeeded
    => LET e == Effective
           keys == DOMAIN OutQuery
       IN  /\ "format" \in keys <=> e.Format # ""
           /\ "maxHeight" \in keys <=> e.MaxHeight > 0
           /\ "maxWidth" \in keys <=> e.MaxWidth > 0
           /\ ~IsZero(e.TimeExpired)
                => keys \subseteq {"format", "maxHeight", "maxWidth", "signature",
                                   "timeExpired", "url"}

\* The operations that return a Metadata and an error.
MetadataOps ==
  {"UploadPublic", "UploadPrivate", "GetMetadata", "Claim", "MakePrivate", "MakePublic"}

\* C10: when the body of the response to an upload, get metadata, claim,
\* make private, make public or delete decodes as the envelope and its error
\* member is not null, the operation returns that error as a *Error, and no
\* metadata, whatever the status code and whether or not the envelope has a
\* metadata object.
EnvelopeErrorReturned ==
  (/\ rpc.pc = "done"
   /\ rpc.op \in MetadataOps \cup {"Delete"}
   /\ ~rpc.reply.failed
   /\ rpc.reply.body.kind = "object"
   /\ rpc.reply.body.error[1] = "object"
   /\ rpc.reply.body.metadata[1] # "string")
    => /\ rpc.err.kind = "Error"
       /\ rpc.err.error = rpc.reply.body.error[2]
       /\ rpc.meta = <<>>

\* C10's case: a 200 response whose envelope has both a metadata object and
\* an error.
EnvelopeErrorReturnedWitness ==
  /\ rpc.pc = "done"
  /\ rpc.op = "GetMetadata"
  /\ rpc.reply = [failed |-> FALSE, status |-> 200,
                  body |-> [kind |-> "object", metadata |-> <<"object", M1>>,
                            error |-> <<"object", E1>>]]
  /\ rpc.err = [kind |-> "Error", error |-> E1, text |-> "ospry: image not found"]
  /\ rpc.meta = <<>>

\* C11: an upload, get metadata, claim, make private, make public or delete
\* that got a response with a status outside 200..299 returns an error.
NonSuccessStatusReturnsError ==
  (/\ rpc.pc = "done"
   /\ rpc.op \in MetadataOps \cup {"Delete"}
   /\ ~rpc.reply.failed
   /\ rpc.reply.status \notin 200..299)
    => rpc.err.kind # "nil"

\* C12: an operation that returns a Metadata returns exactly one of a
\* metadata and an error, and with a nil error the metadata is the one the
\* envelope of the response holds.
MetadataOrError ==
  (rpc.pc = "done" /\ rpc.op \in MetadataOps)
    => /\ (rpc.meta = <<>>) # (rpc.err.kind = "nil")
       /\ rpc.err.kind = "nil"
            => /\ rpc.reply.body.kind = "object"
               /\ rpc.reply.body.metadata[1] = "object"
               /\ rpc.meta = <<rpc.reply.body.metadata[2]>>

\* C14: the URL a Download on the client c requests is the URL that
\* c.FormatURL returns for the same url and opts, signed with the key of c
\* when opts holds an expiration.
DownloadRequestsOwnURL ==
  (rpc.op = "Download" /\ rpc.pc \in {"sent", "done"})
    => LET own == FormatURL(clients[rpc.recv].Key, rpc.urlstr, rpc.arg)
       IN  IF own.err # "" THEN rpc.req = NoRequest
           ELSE rpc.req.method = "GET" /\ rpc.req.url = own.url

\* The running FormatURL stands at its load of the default client's key
\* (line 334) while a SetKey stands at its store of it (line 97).
DataRace ==
  /\ call.pc = "sign"
  /\ call.recv = "default"
  /\ ~IsZero(Deref(call, callerOpts).TimeExpired)
  /\ setKey.pc = "write"

\* C13: FormatURL shares no mutable state with the calls running beside it:
\* no load of it races with a store of SetKey, and what it returns is what
\* it returns when run alone, from its entry, on the same url and opts.
FormatURLUnshared ==
  /\ ~DataRace
  /\ Returned => /\ call.url = FormatURL(entryKey, call.urlstr, call.arg).url
                 /\ call.err = FormatURL(entryKey, call.urlstr, call.arg).err

\* C15: when deleteMetadata(m) returns, the list holds no entry whose ID is
\* m.ID: the store does not list an image DeleteImages has deleted.
DeletedNotListed ==
  del.pc = "deleted" => del.m[del.i] \notin StoredIds(metadatas)

====
